---------------------------- MODULE Spec2Model ----------------------------
(***************************************************************************)
(* Model of the base64 decoder's core (src/lib/file-utils.ts):             *)
(* cleanBase64, isValidBase64 and detectMimeType, together with the        *)
(* platform functions they call (String.prototype.trim, RegExp matching,   *)
(* atob, JSON.parse).                                                      *)
(*                                                                         *)
(* A JavaScript string is a sequence of UTF-16 code units, modelled as a   *)
(* sequence of naturals.  Every string literal of the source is written as *)
(* the tuple of its code units, with the literal in a comment beside it.   *)
(***************************************************************************)
EXTENDS Integers, Sequences, FiniteSets, TLC

VARIABLES
    arg,        \* the string the core function is applied to
    call,       \* the core function that was applied ("none" before any call)
    cleanedText,    \* what cleanBase64(arg) returned
    cleanedAgain,  \* what cleanBase64 returned for its own result
    isValid,      \* what isValidBase64(arg) returned
    guess,      \* how detectMimeType(arg) ended, and with what
    signatures, \* the MIME_SIGNATURES object as it stands in memory
    held,       \* the object the last detectMimeType call returned: the index
                \* of the table entry it is, or 0 for an object created by the call
    inputState, \* Base64Decoder: the state `input`, the text of the textarea
    document,   \* Base64Decoder: the decoded document, or null
    error,      \* Base64Decoder: the error message shown, or null
    isProcessing,   \* Base64Decoder: processBase64 is running
    viewport,   \* the PageViewport handed to canvasToPdfCoordinates
    docPoint,   \* a point of the page, in document (PDF) space
    canvasPoint,    \* a position on the canvas, in pixels
    pdfPoint,   \* what canvasToPdfCoordinates returned
    coordStep,  \* where canvasPoint comes from, and whether it was converted
    processed,  \* the processBase64 run that has just ended: its input, how it
                \* ended and the core functions it called
    pdfDoc,     \* PDFViewer: the loaded document, or null
    loading,    \* PDFViewer: the document is being loaded
    loadError,  \* PDFViewer: the state `error`, set when loading failed
    currentPage,    \* PDFViewer: the page shown
    totalPages, \* PDFViewer: the number of pages of the document
    scale,      \* PDFViewer: the zoom factor, in quarters (3 is 0.75, 16 is 4)
    storedViewport, \* PDFViewer: the state `viewport`, or null
    canvas,     \* the width and height of the canvas element
    renders,    \* the renderPage calls in flight, oldest first
    loads,      \* the loadPdf calls in flight, oldest first
    mounted,    \* the PDFViewer component is mounted
    localStorage,   \* the keys that have an item in window.localStorage
    reading,    \* the components whose handleFileSelect awaits fileToBase64
    lifecycle,  \* the life cycle of the page: "active", "leaving" after a
                \* beforeunload event, "bfcache" or "gone"
    closed,     \* a beforeunload event, or a pagehide event with persisted =
                \* false, has been delivered since the page was last shown
    wiped,      \* the application's keys that storage.clearAll has removed
                \* since the page was last shown
    shown,      \* for each file component, whether its state `file` is set
    cleared,    \* the file components whose handleClear has run since their
                \* last handleFileSelect
    windowPdfjsLib, \* window.pdfjsLib: 0 while undefined, else the library
                \* instance, named by the script element that created it
    scripts,    \* the PDF.js script elements appended to document.head
    libCalls,   \* the latest loadPdfJs call of each viewer
    coordinates,    \* PDFViewer: the coordinate sample, or null
    isHovering, \* PDFViewer: the pointer is over the canvas
    showCoordinates \* PDFViewer: the coordinate display is switched on

\* The variables of the core functions' calls
coreVars == <<arg, call, cleanedText, cleanedAgain, isValid, guess>>

\* The signature table and the caller's reference into it
aliasVars == <<signatures, held>>

\* The state of the Base64Decoder component
decoderVars == <<inputState, document, error, isProcessing, processed>>

\* The coordinate transformer's arguments and result
coordVars == <<viewport, docPoint, canvasPoint, pdfPoint, coordStep>>

\* The state of the PDFViewer component and of its canvas
pdfVars == <<pdfDoc, loading, loadError, currentPage, totalPages, scale,
             storedViewport, canvas, renders, loads, mounted>>

\* The browser's storage and the page around the Base64App component
storageVars == <<localStorage, reading, lifecycle, closed, wiped, shown, cleared>>

\* The page's PDF.js global and script elements, and the loadPdfJs calls
scriptVars == <<windowPdfjsLib, scripts, libCalls>>

\* The state of the PDFViewer's coordinate overlay
overlayVars == <<coordinates, isHovering, showCoordinates>>

vars == <<coreVars, aliasVars, decoderVars, coordVars, pdfVars, storageVars,
          scriptVars, overlayVars>>

(***************************************************************************)
(* String primitives of the platform                                       *)
(***************************************************************************)

SetMin(S) == CHOOSE x \in S : \A y \in S : x <= y

SetMax(S) == CHOOSE x \in S : \A y \in S : x >= y

\* s.substring(i - 1, j) with 1-based inclusive bounds; empty when j < i
Slice(s, i, j) == IF j < i THEN <<>> ELSE SubSeq(s, i, j)

\* p occurs in s at (1-based) position i
startsWithAt(s, p, i) ==
    /\ i >= 1
    /\ i + Len(p) - 1 <= Len(s)
    /\ \A k \in 1..Len(p) : s[i + k - 1] = p[k]

\* String.prototype.startsWith
startsWith(s, p) == startsWithAt(s, p, 1)

\* String.prototype.includes
includes(s, p) == \E i \in 1..(Len(s) - Len(p) + 1) : startsWithAt(s, p, i)

\* ECMAScript LineTerminator: LF, CR, LS (U+2028), PS (U+2029)
LineTerminators == {10, 13, 8232, 8233}

\* ECMAScript WhiteSpace + LineTerminator: what trim() strips and \s matches.
\* TAB, LF, VT, FF, CR, SP, NBSP, U+1680, U+2000..U+200A, LS, PS, U+202F,
\* U+205F, U+3000, U+FEFF
WhiteSpaceChars ==
    {9, 10, 11, 12, 13, 32, 160, 5760} \cup (8192..8202)
        \cup {8232, 8233, 8239, 8287, 12288, 65279}

\* String.prototype.trim
trim(s) ==
    LET keep == {i \in 1..Len(s) : s[i] \notin WhiteSpaceChars}
    IN  IF keep = {} THEN <<>> ELSE SubSeq(s, SetMin(keep), SetMax(keep))

IsNotWhiteSpace(c) == c \notin WhiteSpaceChars

\* s.replace(/\s/g, "")
RemoveWhiteSpace(s) == SelectSeq(s, IsNotWhiteSpace)

\* [A-Z], [a-z], [0-9]
UpperAlpha == 65..90

LowerAlpha == 97..122

Digits == 48..57

\* String.prototype.toLowerCase on one code unit (ASCII and Latin-1 letters)
LowerChar(c) ==
    IF c \in UpperAlpha \/ c \in ((192..222) \ {215}) THEN c + 32 ELSE c

\* String.prototype.toLowerCase
toLowerCase(s) == [i \in 1..Len(s) |-> LowerChar(s[i])]

(***************************************************************************)
(* The data-URI prefix                                                     *)
(***************************************************************************)

DataColon == <<100, 97, 116, 97, 58>>                    \* "data:"

SemiBase64Comma == <<59, 98, 97, 115, 101, 54, 52, 44>>  \* ";base64,"

NoMatch == [matched |-> FALSE, mime |-> <<>>, rest |-> <<>>]

\* s.match(/^data:([^;]+);base64,/): [^;]+ runs from after "data:" to the
\* first ';' (it cannot cross one), must be non-empty, and ";base64," must
\* follow it.  mime is capture group 1, rest the text after the match.
DataUriPrefix(s) ==
    LET semis == {i \in 6..Len(s) : s[i] = 59}
    IN  IF startsWith(s, DataColon) /\ semis # {}
        THEN LET k == SetMin(semis)
             IN  IF k > 6 /\ startsWithAt(s, SemiBase64Comma, k)
                 THEN [matched |-> TRUE,
                       mime |-> SubSeq(s, 6, k - 1),
                       rest |-> Slice(s, k + 8, Len(s))]
                 ELSE NoMatch
        ELSE NoMatch

\* The tail (.+)$ of /^data:[^;]+;base64,(.+)$/: without the s flag '.' matches
\* no line terminator and without the m flag '$' is the end of the input, so
\* the text after the comma must be non-empty and hold no line terminator.
DotPlusToEnd(rest) ==
    /\ rest # <<>>
    /\ \A i \in 1..Len(rest) : rest[i] \notin LineTerminators

(***************************************************************************)
(* cleanBase64 and isValidBase64                                           *)
(***************************************************************************)

cleanBase64(input) ==
    LET trimmed == trim(input)
        m == DataUriPrefix(trimmed)
        dataUriMatch == m.matched /\ DotPlusToEnd(m.rest)
        cleaned == IF dataUriMatch THEN m.rest ELSE trimmed
    IN  RemoveWhiteSpace(cleaned)

\* [A-Za-z0-9+/]
Base64Alphabet == UpperAlpha \cup LowerAlpha \cup Digits \cup {43, 47}

\* The length of the longest prefix of s made of base64 alphabet characters
RECURSIVE AlphabetRun(_, _)
AlphabetRun(s, i) ==
    IF i <= Len(s) /\ s[i] \in Base64Alphabet THEN AlphabetRun(s, i + 1) ELSE i - 1

\* Mutant of base64Regex: the pattern without its closing '$', which then
\* matches a prefix of any input
base64RegexUnanchored(s) == AlphabetRun(s, 1) >= 0

\* /^[A-Za-z0-9+/]*={0,2}$/.test(s): the greedy run of alphabet characters,
\* then at most two '=', then the end of the input
base64Regex(s) ==
    LET n == AlphabetRun(s, 1)
        tail == Slice(s, n + 1, Len(s))
    IN  tail \in {<<>>, <<61>>, <<61, 61>>}

isValidBase64(str) ==
    IF str = <<>>
    THEN FALSE
    ELSE LET cleaned == cleanBase64(str)
         IN  base64Regex(cleaned) /\ Len(cleaned) % 4 = 0

(***************************************************************************)
(* atob: the platform's forgiving-base64 decode                            *)
(***************************************************************************)

\* ASCII whitespace of the decode algorithm: TAB, LF, FF, CR, SPACE
AsciiWhitespace == {9, 10, 12, 13, 32}

IsNotAsciiWhitespace(c) == c \notin AsciiWhitespace

\* The 6-bit value of a base64 alphabet character
B64Index(c) ==
    IF c \in UpperAlpha THEN c - 65
    ELSE IF c \in LowerAlpha THEN c - 97 + 26
    ELSE IF c \in Digits THEN c - 48 + 52
    ELSE IF c = 43 THEN 62
    ELSE 63

\* 2^n for the shifts of the decoder
Pow2(n) == CASE n = 0 -> 1 [] n = 2 -> 4 [] n = 4 -> 16

\* The bytes that a sequence of alphabet characters encodes; bits left over
\* after the last whole byte are discarded
DecodeSextets(d) ==
    [j \in 1..((Len(d) * 6) \div 8) |->
        LET o == 8 * (j - 1)
            q == (o \div 6) + 1
            r == o % 6
            w == B64Index(d[q]) * 64 + B64Index(d[q + 1])
        IN  (w \div Pow2(4 - r)) % 256]

IsBase64Char(c) == c \in Base64Alphabet

\* Mutant of atob: a lenient decoder that skips every character outside the
\* alphabet instead of failing on it
atobLenient(data) ==
    LET d == SelectSeq(data, IsBase64Char)
    IN  IF Len(d) % 4 = 1
        THEN [threw |-> TRUE, value |-> <<>>]
        ELSE [threw |-> FALSE, value |-> DecodeSextets(d)]

\* atob(data): strip ASCII whitespace; when the length is a multiple of 4 drop
\* one or two trailing '='; fail (InvalidCharacterError) when the length is
\* 1 mod 4 or a character is outside the alphabet; otherwise decode.
atob(data) ==
    LET d1 == SelectSeq(data, IsNotAsciiWhitespace)
        n1 == Len(d1)
        d2 == IF n1 % 4 = 0 /\ n1 >= 2 /\ d1[n1] = 61 /\ d1[n1 - 1] = 61
                  THEN SubSeq(d1, 1, n1 - 2)
              ELSE IF n1 % 4 = 0 /\ n1 >= 1 /\ d1[n1] = 61
                  THEN SubSeq(d1, 1, n1 - 1)
              ELSE d1
    IN  IF Len(d2) % 4 = 1 \/ \E i \in 1..Len(d2) : d2[i] \notin Base64Alphabet
        THEN [threw |-> TRUE, value |-> <<>>]
        ELSE [threw |-> FALSE, value |-> DecodeSextets(d2)]

(***************************************************************************)
(* JSON.parse: a recogniser of the JSON grammar.  Each parser takes the    *)
(* text and a position and yields the position after what it parsed, or 0  *)
(* for a SyntaxError.                                                      *)
(***************************************************************************)

\* JSON whitespace: TAB, LF, CR, SPACE
JsonWs == {9, 10, 13, 32}

HexDigits == Digits \cup (65..70) \cup (97..102)

CharAt(s, i) == IF i >= 1 /\ i <= Len(s) THEN s[i] ELSE -1

JsonSkipWs(s, i) ==
    LET rest == {j \in i..Len(s) : s[j] \notin JsonWs}
    IN  IF rest = {} THEN Len(s) + 1 ELSE SetMin(rest)

\* The characters of a string after its opening quote, up to the closing one
RECURSIVE JsonChars(_, _)
JsonChars(s, i) ==
    LET c == CharAt(s, i)
    IN  IF c = 34 THEN i + 1                                   \* '"'
        ELSE IF c = 92                                         \* '\'
        THEN LET e == CharAt(s, i + 1)
             IN  IF e \in {34, 92, 47, 98, 102, 110, 114, 116} \* "\/bfnrt
                 THEN JsonChars(s, i + 2)
                 ELSE IF e = 117                               \* uXXXX
                          /\ \A k \in 2..5 : CharAt(s, i + k) \in HexDigits
                 THEN JsonChars(s, i + 6)
                 ELSE 0
        ELSE IF c < 32 THEN 0              \* control character, or the end
        ELSE JsonChars(s, i + 1)

JsonString(s, i) == IF CharAt(s, i) = 34 THEN JsonChars(s, i + 1) ELSE 0

\* The position after the run of digits that starts at i
RECURSIVE DigitRun(_, _)
DigitRun(s, i) == IF CharAt(s, i) \in Digits THEN DigitRun(s, i + 1) ELSE i

\* -?(0|[1-9][0-9]*)(\.[0-9]+)?([eE][+-]?[0-9]+)?
JsonNumber(s, i) ==
    LET i1 == IF CharAt(s, i) = 45 THEN i + 1 ELSE i
        i2 == IF CharAt(s, i1) = 48 THEN i1 + 1
              ELSE IF CharAt(s, i1) \in 49..57 THEN DigitRun(s, i1)
              ELSE 0
        i3 == IF i2 # 0 /\ CharAt(s, i2) = 46
              THEN (IF CharAt(s, i2 + 1) \in Digits THEN DigitRun(s, i2 + 1) ELSE 0)
              ELSE i2
        e1 == IF CharAt(s, i3 + 1) \in {43, 45} THEN i3 + 2 ELSE i3 + 1
        i4 == IF i3 # 0 /\ CharAt(s, i3) \in {69, 101}
              THEN (IF CharAt(s, e1) \in Digits THEN DigitRun(s, e1) ELSE 0)
              ELSE i3
    IN  i4

JsonTrue == <<116, 114, 117, 101>>        \* "true"

JsonFalse == <<102, 97, 108, 115, 101>>   \* "false"

JsonNull == <<110, 117, 108, 108>>        \* "null"

RECURSIVE JsonValue(_, _)
RECURSIVE JsonElements(_, _)
RECURSIVE JsonMembers(_, _)

\* value (ws (',' ws value ws)* ']'), from the position of the first value
JsonElements(s, i) ==
    LET v == JsonValue(s, i)
        k == JsonSkipWs(s, v)
    IN  IF v = 0 THEN 0
        ELSE IF CharAt(s, k) = 93 THEN k + 1                               \* ']'
        ELSE IF CharAt(s, k) = 44 THEN JsonElements(s, JsonSkipWs(s, k + 1)) \* ','
        ELSE 0

\* string ws ':' ws value ws (',' ws member)* '}', from the first member
JsonMembers(s, i) ==
    LET n == JsonString(s, i)
        c == JsonSkipWs(s, n)
        v == JsonValue(s, JsonSkipWs(s, c + 1))
        k == JsonSkipWs(s, v)
    IN  IF n = 0 \/ CharAt(s, c) # 58 \/ v = 0 THEN 0                      \* ':'
        ELSE IF CharAt(s, k) = 125 THEN k + 1                              \* '}'
        ELSE IF CharAt(s, k) = 44 THEN JsonMembers(s, JsonSkipWs(s, k + 1))
        ELSE 0

JsonValue(s, i) ==
    LET c == CharAt(s, i)
        j == JsonSkipWs(s, i + 1)
    IN  IF c = 123                                                         \* '{'
        THEN (IF CharAt(s, j) = 125 THEN j + 1 ELSE JsonMembers(s, j))
        ELSE IF c = 91                                                     \* '['
        THEN (IF CharAt(s, j) = 93 THEN j + 1 ELSE JsonElements(s, j))
        ELSE IF c = 34 THEN JsonString(s, i)
        ELSE IF c = 45 \/ c \in Digits THEN JsonNumber(s, i)
        ELSE IF startsWithAt(s, JsonTrue, i) THEN i + 4
        ELSE IF startsWithAt(s, JsonFalse, i) THEN i + 5
        ELSE IF startsWithAt(s, JsonNull, i) THEN i + 4
        ELSE 0

\* TRUE when JSON.parse(text) returns, FALSE when it throws a SyntaxError
JSONparse(text) ==
    LET v == JsonValue(text, JsonSkipWs(text, 1))
    IN  v # 0 /\ JsonSkipWs(text, v) = Len(text) + 1

(***************************************************************************)
(* detectMimeType                                                          *)
(***************************************************************************)

\* Object.entries(MIME_SIGNATURES): no key is an array index, so the entries
\* come in the order the literal lists them
MIME_SIGNATURES == <<
    \* JVBERi0: { mime: "application/pdf", ext: "pdf" }
    [signature |-> <<74, 86, 66, 69, 82, 105, 48>>,
     typeInfo |-> [mime |-> <<97, 112, 112, 108, 105, 99, 97, 116, 105, 111, 110, 47, 112, 100, 102>>,
                   ext |-> <<112, 100, 102>>]],
    \* iVBORw0KGgo: { mime: "image/png", ext: "png" }
    [signature |-> <<105, 86, 66, 79, 82, 119, 48, 75, 71, 103, 111>>,
     typeInfo |-> [mime |-> <<105, 109, 97, 103, 101, 47, 112, 110, 103>>,
                   ext |-> <<112, 110, 103>>]],
    \* /9j/: { mime: "image/jpeg", ext: "jpg" }
    [signature |-> <<47, 57, 106, 47>>,
     typeInfo |-> [mime |-> <<105, 109, 97, 103, 101, 47, 106, 112, 101, 103>>,
                   ext |-> <<106, 112, 103>>]],
    \* R0lGODlh: { mime: "image/gif", ext: "gif" }
    [signature |-> <<82, 48, 108, 71, 79, 68, 108, 104>>,
     typeInfo |-> [mime |-> <<105, 109, 97, 103, 101, 47, 103, 105, 102>>,
                   ext |-> <<103, 105, 102>>]],
    \* R0lGODdh: { mime: "image/gif", ext: "gif" }
    [signature |-> <<82, 48, 108, 71, 79, 68, 100, 104>>,
     typeInfo |-> [mime |-> <<105, 109, 97, 103, 101, 47, 103, 105, 102>>,
                   ext |-> <<103, 105, 102>>]],
    \* UEsDBBQA: { mime: "application/zip", ext: "zip" }
    [signature |-> <<85, 69, 115, 68, 66, 66, 81, 65>>,
     typeInfo |-> [mime |-> <<97, 112, 112, 108, 105, 99, 97, 116, 105, 111, 110, 47, 122, 105, 112>>,
                   ext |-> <<122, 105, 112>>]],
    \* UEsFBgA: { mime: "application/zip", ext: "zip" }
    [signature |-> <<85, 69, 115, 70, 66, 103, 65>>,
     typeInfo |-> [mime |-> <<97, 112, 112, 108, 105, 99, 97, 116, 105, 111, 110, 47, 122, 105, 112>>,
                   ext |-> <<122, 105, 112>>]],
    \* PK: { mime: "application/zip", ext: "zip" }
    [signature |-> <<80, 75>>,
     typeInfo |-> [mime |-> <<97, 112, 112, 108, 105, 99, 97, 116, 105, 111, 110, 47, 122, 105, 112>>,
                   ext |-> <<122, 105, 112>>]],
    \* AAAA: { mime: "video/mp4", ext: "mp4" }
    [signature |-> <<65, 65, 65, 65>>,
     typeInfo |-> [mime |-> <<118, 105, 100, 101, 111, 47, 109, 112, 52>>,
                   ext |-> <<109, 112, 52>>]],
    \* GkXfo: { mime: "video/webm", ext: "webm" }
    [signature |-> <<71, 107, 88, 102, 111>>,
     typeInfo |-> [mime |-> <<118, 105, 100, 101, 111, 47, 119, 101, 98, 109>>,
                   ext |-> <<119, 101, 98, 109>>]],
    \* Qk0: { mime: "image/bmp", ext: "bmp" }
    [signature |-> <<81, 107, 48>>,
     typeInfo |-> [mime |-> <<105, 109, 97, 103, 101, 47, 98, 109, 112>>,
                   ext |-> <<98, 109, 112>>]],
    \* SUkqAA: { mime: "image/tiff", ext: "tiff" }
    [signature |-> <<83, 85, 107, 113, 65, 65>>,
     typeInfo |-> [mime |-> <<105, 109, 97, 103, 101, 47, 116, 105, 102, 102>>,
                   ext |-> <<116, 105, 102, 102>>]],
    \* TU0AKg: { mime: "image/tiff", ext: "tiff" }
    [signature |-> <<84, 85, 48, 65, 75, 103>>,
     typeInfo |-> [mime |-> <<105, 109, 97, 103, 101, 47, 116, 105, 102, 102>>,
                   ext |-> <<116, 105, 102, 102>>]],
    \* UklGR: { mime: "image/webp", ext: "webp" }
    [signature |-> <<85, 107, 108, 71, 82>>,
     typeInfo |-> [mime |-> <<105, 109, 97, 103, 101, 47, 119, 101, 98, 112>>,
                   ext |-> <<119, 101, 98, 112>>]]
    >>

\* { mime: "application/json", ext: "json" }
JsonGuess ==
    [mime |-> <<97, 112, 112, 108, 105, 99, 97, 116, 105, 111, 110, 47, 106, 115, 111, 110>>,
     ext |-> <<106, 115, 111, 110>>]

\* { mime: "application/xml", ext: "xml" }
XmlGuess ==
    [mime |-> <<97, 112, 112, 108, 105, 99, 97, 116, 105, 111, 110, 47, 120, 109, 108>>,
     ext |-> <<120, 109, 108>>]

\* { mime: "text/html", ext: "html" }
HtmlGuess ==
    [mime |-> <<116, 101, 120, 116, 47, 104, 116, 109, 108>>,
     ext |-> <<104, 116, 109, 108>>]

\* { mime: "application/javascript", ext: "js" }
JavaScriptGuess ==
    [mime |-> <<97, 112, 112, 108, 105, 99, 97, 116, 105, 111, 110, 47, 106, 97, 118, 97, 115, 99, 114, 105, 112, 116>>,
     ext |-> <<106, 115>>]

\* { mime: "text/plain", ext: "txt" }
TextGuess ==
    [mime |-> <<116, 101, 120, 116, 47, 112, 108, 97, 105, 110>>,
     ext |-> <<116, 120, 116>>]

\* { mime: "application/octet-stream", ext: "bin" }
OctetStreamGuess ==
    [mime |-> <<97, 112, 112, 108, 105, 99, 97, 116, 105, 111, 110, 47, 111, 99, 116, 101, 116, 45, 115, 116, 114, 101, 97, 109>>,
     ext |-> <<98, 105, 110>>]

XmlDecl ==
    <<60, 63, 120, 109, 108>>
    \* "<?xml"

DoctypeHtml ==
    <<60, 33, 68, 79, 67, 84, 89, 80, 69, 32, 104, 116, 109, 108>>
    \* "<!DOCTYPE html"

HtmlTag ==
    <<60, 104, 116, 109, 108>>
    \* "<html"

KwFunction ==
    <<102, 117, 110, 99, 116, 105, 111, 110>>
    \* "function"

KwConst ==
    <<99, 111, 110, 115, 116, 32>>
    \* "const "

KwLet ==
    <<108, 101, 116, 32>>
    \* "let "

Bin ==
    <<98, 105, 110>>
    \* "bin"

\* How a block of statements ends: it returns a value, it throws, or it runs
\* to its end ("normal") and control goes on after it
Return(v) == [kind |-> "return", value |-> v]

\* No value: nothing was returned
NoValue == [mime |-> <<>>, ext |-> <<>>]

Throw == [kind |-> "throw", value |-> NoValue]

Normal == [kind |-> "normal", value |-> NoValue]

\* mime.split("/")[1]: the text between the first '/' and the next one (or the
\* end); undefined when mime holds no '/'
SplitSlashSecond(mime) ==
    LET slashes == {i \in 1..Len(mime) : mime[i] = 47}
    IN  IF slashes = {}
        THEN [defined |-> FALSE, text |-> <<>>]
        ELSE LET a == SetMin(slashes)
                 later == slashes \ {a}
                 b == IF later = {} THEN Len(mime) + 1 ELSE SetMin(later)
             IN  [defined |-> TRUE, text |-> Slice(mime, a + 1, b - 1)]

IsAsciiAlnum(c) == c \in UpperAlpha \/ c \in LowerAlpha \/ c \in Digits

IsLowerAlnum(c) == c \in LowerAlpha \/ c \in Digits

\* Mutant of ExtOfMime: no `|| "bin"`, an empty or undefined result is kept
ExtOfMimeNoFallback(mime) ==
    SelectSeq(SplitSlashSecond(mime).text, IsAsciiAlnum)

\* Mutant of ExtOfMime: the pattern without its i flag, /[^a-z0-9]/g
ExtOfMimeCaseSensitive(mime) ==
    LET second == SplitSlashSecond(mime)
        kept == SelectSeq(second.text, IsLowerAlnum)
    IN  IF second.defined /\ kept # <<>> THEN kept ELSE Bin

\* mime.split("/")[1]?.replace(/[^a-z0-9]/gi, "") || "bin"
ExtOfMime(mime) ==
    LET second == SplitSlashSecond(mime)
        kept == SelectSeq(second.text, IsAsciiAlnum)
    IN  IF second.defined /\ kept # <<>> THEN kept ELSE Bin

\* Mutant of SignatureLoop: startsWith with receiver and argument swapped
RECURSIVE SignatureLoopSwapped(_, _, _)
SignatureLoopSwapped(table, base64, i) ==
    IF i > Len(table) THEN 0
    ELSE IF startsWith(table[i].signature, base64) THEN i
    ELSE SignatureLoopSwapped(table, base64, i + 1)

\* for (const [signature, typeInfo] of Object.entries(table)):
\* the index of the first entry from i on whose signature base64 starts with,
\* 0 when the loop ends without a match
RECURSIVE SignatureLoop(_, _, _)
SignatureLoop(table, base64, i) ==
    IF i > Len(table) THEN 0
    ELSE IF startsWith(base64, table[i].signature) THEN i
    ELSE SignatureLoop(table, base64, i + 1)

\* base64.replace(/^data:[^;]+;base64,/, "")
StripDataUriPrefix(base64) ==
    LET m == DataUriPrefix(base64)
    IN  IF m.matched THEN m.rest ELSE base64

\* Mutant of PrintableRegex: the class starts at \x00 instead of \x20
PrintableRegexFromNul(decoded) ==
    /\ decoded # <<>>
    /\ \A i \in 1..Len(decoded) :
           decoded[i] \in 0..126 \/ decoded[i] \in WhiteSpaceChars

\* /^[\x20-\x7E\s]+$/.test(decoded)
PrintableRegex(decoded) ==
    /\ decoded # <<>>
    /\ \A i \in 1..Len(decoded) :
           decoded[i] \in 32..126 \/ decoded[i] \in WhiteSpaceChars

\* Mutant of JsonRule: the guess is returned without parsing the text
JsonRuleNoParse(trimmed) == Return(JsonGuess)

\* JSON.parse(trimmed); return { mime: "application/json", ext: "json" }
JsonRule(trimmed) ==
    IF JSONparse(trimmed) THEN Return(JsonGuess) ELSE Throw

\* Mutant of XmlTest: only the XML declaration counts
XmlTestDeclarationOnly(trimmed) == startsWith(trimmed, XmlDecl)

\* trimmed.startsWith("<?xml") || trimmed.startsWith("<")
XmlTest(trimmed) ==
    startsWith(trimmed, XmlDecl) \/ startsWith(trimmed, <<60>>) \* "<"

\* The statements of the try block, after atob returned decoded
TextRules(decoded) ==
    LET trimmed == trim(decoded)
    IN  IF startsWith(trimmed, <<123>>) \/ startsWith(trimmed, <<91>>) \* "{", "["
        THEN JsonRule(trimmed)
        ELSE IF XmlTest(trimmed)
        THEN Return(XmlGuess)
        ELSE IF \/ startsWith(trimmed, DoctypeHtml)
                \/ includes(toLowerCase(trimmed), HtmlTag)
        THEN Return(HtmlGuess)
        ELSE IF \/ includes(trimmed, KwFunction)
                \/ includes(trimmed, KwConst)
                \/ includes(trimmed, KwLet)
        THEN Return(JavaScriptGuess)
        ELSE IF PrintableRegex(decoded)
        THEN Return(TextGuess)
        ELSE Normal

\* The try block
TryBlock(base64) ==
    LET a == atob(StripDataUriPrefix(base64))
    IN  IF a.threw THEN Throw ELSE TextRules(a.value)

\* Mutant of CatchBlock: no catch clause, the exception propagates
CatchBlockRethrow(completion) == completion

\* catch { }: an exception of the try block is dropped and control goes on
\* after the try statement
CatchBlock(completion) ==
    IF completion.kind = "throw" THEN Normal ELSE completion

\* detectMimeType with the signature table it reads
detectWith(table, base64) ==
    LET dataUriMatch == DataUriPrefix(base64)
        sig == SignatureLoop(table, base64, 1)
        text == CatchBlock(TryBlock(base64))
    IN  IF dataUriMatch.matched
        THEN Return([mime |-> dataUriMatch.mime,
                     ext |-> ExtOfMime(dataUriMatch.mime)])
        ELSE IF sig # 0 THEN Return(table[sig].typeInfo)
        ELSE IF text.kind = "normal" THEN Return(OctetStreamGuess)
        ELSE text

detectMimeType(base64) == detectWith(MIME_SIGNATURES, base64)

(***************************************************************************)
(* Specification: the core functions applied to bounded inputs             *)
(***************************************************************************)

\* The signature table as the module creates it, with no result object held
AliasIdle ==
    /\ signatures = MIME_SIGNATURES
    /\ held = 0

\* No caller keeps an object that detectMimeType returned: the content of
\* the signature table is not followed
AliasUntracked ==
    /\ signatures = <<>>
    /\ held = 0

\* useState<DecodedDocument | null>(null): null
NullDocument ==
    [isNull |-> TRUE, data |-> <<>>, mimeType |-> <<>>, extension |-> <<>>,
     filename |-> <<>>, size |-> 0]

\* useState<string | null>(null): null
NullError == [isNull |-> TRUE, message |-> ""]

\* No processBase64 has run
NotProcessed == [completion |-> "none", input |-> <<>>, calls |-> <<>>]

\* The Base64Decoder component as mounted
DecoderIdle ==
    /\ inputState = <<>>
    /\ document = NullDocument
    /\ error = NullError
    /\ isProcessing = FALSE
    /\ processed = NotProcessed

\* A finite JavaScript number num / den, in lowest terms with den > 0
Number(num, den) == [kind |-> "finite", num |-> num, den |-> den]

\* No viewport rendered, no position converted
CoordIdle ==
    /\ viewport = [transform |-> <<0, 0, 0, 0, 0, 0>>, scale |-> 0, height |-> 0,
                   convertToPdfPoint |-> [defined |-> FALSE,
                                          returns |-> <<Number(0, 1), Number(0, 1)>>]]
    /\ docPoint = <<0, 0>>
    /\ canvasPoint = <<0, 0>>
    /\ pdfPoint = [pdfX |-> Number(0, 1), pdfY |-> Number(0, 1)]
    /\ coordStep = "idle"

\* useState<PDFDocumentProxy | null>(null): null
NullPdfDoc == [isNull |-> TRUE, numPages |-> 0]

\* useState<PageViewport | null>(null): null
NullViewport == [isNull |-> TRUE, width |-> 0, height |-> 0, scale |-> 0]

\* A canvas element as the platform creates it: 300 by 150 pixels, written
\* in quarters of a pixel as all lengths of the viewer are
DefaultCanvas == [width |-> 1200, height |-> 600]

\* The PDFViewer component not mounted
PdfIdle ==
    /\ pdfDoc = NullPdfDoc
    /\ loading = TRUE
    /\ loadError = FALSE
    /\ currentPage = 1
    /\ totalPages = 0
    /\ scale = 3
    /\ storedViewport = NullViewport
    /\ canvas = DefaultCanvas
    /\ renders = <<>>
    /\ loads = <<>>
    /\ mounted = FALSE

\* An empty localStorage and a page in use, with no file being read
StorageIdle ==
    /\ localStorage = {}
    /\ reading = {}
    /\ lifecycle = "active"
    /\ closed = FALSE
    /\ wiped = {}
    /\ shown = [component \in {"viewer", "encoder"} |-> FALSE]
    /\ cleared = {}

\* The two PDFViewer elements of PDFViewerWithFullscreen
Viewers == {"inline", "fullscreen"}

\* A viewer that has not called loadPdfJs
NoCall == [state |-> "none", script |-> 0, lib |-> 0]

\* No PDF.js script element in the page and no loadPdfJs call made
ScriptIdle ==
    /\ windowPdfjsLib = 0
    /\ scripts = <<>>
    /\ libCalls = [viewer \in Viewers |-> NoCall]

\* useState<PDFCoordinates | null>(null): null
NullCoordinates == [isNull |-> TRUE, page |-> 0, pageWidth |-> 0, pageHeight |-> 0,
                    scale |-> 0]

\* The overlay state of a PDFViewer as mounted
OverlayIdle ==
    /\ coordinates = NullCoordinates
    /\ isHovering = FALSE
    /\ showCoordinates = TRUE

\* The arguments and results of the core functions before any call
CoreIdle ==
    /\ arg = <<>>
    /\ call = "none"
    /\ cleanedText = <<>>
    /\ cleanedAgain = <<>>
    /\ isValid = FALSE
    /\ guess = Normal

\* What the core functions' calls leave alone, and its value while only they run
otherThanCore == <<aliasVars, decoderVars, coordVars, pdfVars, storageVars,
    scriptVars, overlayVars>>
OtherThanCoreIdle ==
    /\ AliasUntracked /\ DecoderIdle /\ CoordIdle /\ PdfIdle /\ StorageIdle
    /\ ScriptIdle
    /\ OverlayIdle

MaxPieces == 3

\* What the user types or pastes into the decoder's input, piece by piece
Pieces == {
    \* "\n"
    <<10>>,
    \* "="
    <<61>>,
    \* "=="
    <<61, 61>>,
    \* "!"
    <<33>>,
    \* " "
    <<32>>,
    \* "A"
    <<65>>,
    \* "PK": a signature; atob gives "<"
    <<80, 75>>,
    \* "AQID": the bytes 01 02 03
    <<65, 81, 73, 68>>,
    \* "PAEC": "<" and the bytes 01 02
    <<80, 65, 69, 67>>,
    \* "fQ": atob gives }
    <<102, 81>>,
    \* "WzFd": [1]
    <<87, 122, 70, 100>>,
    \* "eyJhIjox": {"a":1
    <<101, 121, 74, 104, 73, 106, 111, 120>>,
    \* "JVBERi0x": %PDF-1
    <<74, 86, 66, 69, 82, 105, 48, 120>>,
    \* "bGV0IGE7": let a;
    <<98, 71, 86, 48, 73, 71, 69, 55>>,
    \* "YTxodG1s": a<html
    <<89, 84, 120, 111, 100, 71, 49, 115>>,
    \* "data:a/b;base64,"
    <<100, 97, 116, 97, 58, 97, 47, 98, 59, 98, 97, 115, 101, 54, 52, 44>>
    }

\* Data-URI prefixes an input may start with, each counted as one piece
Leads == {
    \* "data:a/B-c/d;base64,"
    <<100, 97, 116, 97, 58, 97, 47, 66, 45, 99, 47, 100, 59, 98, 97, 115, 101, 54, 52, 44>>,
    \* "data:x;base64,"
    <<100, 97, 116, 97, 58, 120, 59, 98, 97, 115, 101, 54, 52, 44>>,
    \* "data:a/-;base64,"
    <<100, 97, 116, 97, 58, 97, 47, 45, 59, 98, 97, 115, 101, 54, 52, 44>>
    }

\* Whole HTML documents, encoded
HtmlDocuments == {
    \* "PCFET0NUWVBFIGh0bWw+": <!DOCTYPE html>
    <<80, 67, 70, 69, 84, 48, 78, 85, 87, 86, 66, 70, 73, 71, 104, 48, 98, 87, 119, 43>>,
    \* "PGh0bWw+": <html>
    <<80, 71, 104, 48, 98, 87, 119, 43>>
    }

RECURSIVE Concats(_)
Concats(n) ==
    IF n = 0 THEN {<<>>}
    ELSE LET shorter == Concats(n - 1)
         IN  shorter \cup {s \o p : s \in shorter, p \in Pieces}

\* Up to MaxPieces pieces, the first of which may be one of Leads, and the
\* whole HTML documents
Inputs ==
    Concats(MaxPieces)
        \cup {lead \o body : lead \in Leads, body \in Concats(MaxPieces - 1)}
        \cup HtmlDocuments

InitCore ==
    /\ arg \in Inputs
    /\ call = "none"
    /\ cleanedText = <<>>
    /\ cleanedAgain = <<>>
    /\ isValid = FALSE
    /\ guess = Normal
    /\ OtherThanCoreIdle

CallClean ==
    /\ call = "none"
    /\ call' = "cleanBase64"
    /\ cleanedText' = cleanBase64(arg)
    /\ UNCHANGED <<arg, cleanedAgain, isValid, guess>>
    /\ UNCHANGED otherThanCore

\* clean applied to its own result
CallCleanAgain ==
    /\ call = "cleanBase64"
    /\ call' = "cleanBase64.cleanBase64"
    /\ cleanedAgain' = cleanBase64(cleanedText)
    /\ UNCHANGED <<arg, cleanedText, isValid, guess>>
    /\ UNCHANGED otherThanCore

CallIsValid ==
    /\ call = "none"
    /\ call' = "isValidBase64"
    /\ isValid' = isValidBase64(arg)
    /\ UNCHANGED <<arg, cleanedText, cleanedAgain, guess>>
    /\ UNCHANGED otherThanCore

CallDetect ==
    /\ call = "none"
    /\ call' = "detectMimeType"
    /\ guess' = detectMimeType(arg)
    /\ UNCHANGED <<arg, cleanedText, cleanedAgain, isValid>>
    /\ UNCHANGED otherThanCore

NextCore ==
    \/ CallClean
    \/ CallCleanAgain
    \/ CallIsValid
    \/ CallDetect

SpecCore == InitCore /\ [][NextCore]_vars

(***************************************************************************)
(* Properties of the core functions                                        *)
(***************************************************************************)

\* s is a string: a sequence of code units
IsString(s) == \A i \in DOMAIN s : s[i] \in Nat

\* The table entries whose signature s starts with
MatchingSignatures(s) ==
    {i \in 1..Len(MIME_SIGNATURES) : startsWith(s, MIME_SIGNATURES[i].signature)}

\* s begins with no data-URI prefix and with no signature of the table
NoPrefixNoSignature(s) ==
    ~DataUriPrefix(s).matched /\ MatchingSignatures(s) = {}

\* The base64 grammar, stated directly: length a multiple of 4, and for some
\* k <= 2 the last k characters are '=' and all the others are of the alphabet
InGrammar(s) ==
    /\ Len(s) % 4 = 0
    /\ \E k \in 0..2 :
          /\ k <= Len(s)
          /\ \A i \in 1..Len(s) :
                IF i > Len(s) - k THEN s[i] = 61 ELSE s[i] \in Base64Alphabet

\* C1: detect is total: for every input it returns a {mime, ext} pair with
\* both fields defined strings, and no exception escapes it (a failure of
\* atob or of JSON.parse is absorbed).
C1_DetectTotal ==
    call = "detectMimeType" =>
        /\ guess.kind = "return"
        /\ IsString(guess.value.mime)
        /\ IsString(guess.value.ext)

\* C1 witness: detect was called on garbage that atob rejects, and returned
C1_Witness ==
    /\ call = "detectMimeType"
    /\ NoPrefixNoSignature(arg)
    /\ atob(arg).threw
    /\ guess = Return(OctetStreamGuess)

\* C2 as stated, its first half: isValid(s) is true for every string s of the
\* grammar ([A-Za-z0-9+/]*, then 0 to 2 '=', length a multiple of 4).  (The
\* second half, that every other string is rejected, fails as well: see
\* C2_Witness.)
C2_Original ==
    (call = "isValidBase64" /\ InGrammar(arg)) => isValid

\* C2 amended: isValid(s) is true exactly when s is not empty and clean(s) is
\* of the grammar.
C2_ValidIffCleanedInGrammar ==
    call = "isValidBase64" =>
        (isValid <=> (arg # <<>> /\ InGrammar(cleanBase64(arg))))

\* C2 witness: an input that is not itself of the grammar (it carries white
\* space or a data-URI prefix) was accepted
C2_Witness ==
    /\ call = "isValidBase64"
    /\ isValid
    /\ ~InGrammar(arg)
    /\ cleanBase64(arg) # <<>>

\* C3: clean is idempotent: clean(clean(s)) = clean(s) for every input s.
C3_CleanIdempotent ==
    call = "cleanBase64.cleanBase64" => cleanedAgain = cleanedText

\* C4: clean strips the data-URI prefix and all whitespace: the result holds
\* no whitespace character, and for an input that after trimming begins with
\* data:<mime>;base64, it is exactly the text after the comma with the
\* whitespace removed, also when that text is wrapped over several lines.
\* (Stated here for a payload that is not empty.)
C4_CleanStripsPrefixAndWhitespace ==
    call = "cleanBase64" =>
        /\ \A i \in 1..Len(cleanedText) : cleanedText[i] \notin WhiteSpaceChars
        /\ LET m == DataUriPrefix(trim(arg))
           IN  (m.matched /\ RemoveWhiteSpace(m.rest) # <<>>) =>
                   cleanedText = RemoveWhiteSpace(m.rest)

PdfSignature == <<74, 86, 66, 69, 82, 105, 48>>   \* "JVBERi0"

\* { mime: "application/pdf", ext: "pdf" }
PdfGuess ==
    [mime |-> <<97, 112, 112, 108, 105, 99, 97, 116, 105, 111, 110, 47, 112, 100, 102>>,
     ext |-> <<112, 100, 102>>]

\* C5: signature priority: a payload that starts with a signature of the table
\* gets the TypeGuess of the first entry, in table order, whose signature
\* matches, whatever the text heuristics would say; "JVBERi0" gives
\* application/pdf / pdf; and no signature is a prefix of another.
C5_SignaturePriority ==
    /\ \A i, j \in 1..Len(MIME_SIGNATURES) :
          i # j => ~startsWith(MIME_SIGNATURES[i].signature,
                               MIME_SIGNATURES[j].signature)
    /\ (call = "detectMimeType" /\ MatchingSignatures(arg) # {}) =>
          guess = Return(MIME_SIGNATURES[SetMin(MatchingSignatures(arg))].typeInfo)
    /\ (call = "detectMimeType" /\ startsWith(arg, PdfSignature)) =>
          guess = Return(PdfGuess)

\* C5 witness: a payload starting with "JVBERi0" that the text heuristics alone
\* would call text/plain was classified as PDF
C5_Witness ==
    /\ call = "detectMimeType"
    /\ startsWith(arg, PdfSignature)
    /\ ~atob(arg).threw
    /\ TextRules(atob(arg).value) = Return(TextGuess)
    /\ guess = Return(PdfGuess)

\* The text the heuristics look at: the decoded payload, trimmed
DecodedText(s) == trim(atob(s).value)

\* The text starts with "{" or "["
StartsLikeJson(text) == startsWith(text, <<123>>) \/ startsWith(text, <<91>>)

\* C6: JSON is never misreported: for a payload with no data-URI prefix and no
\* signature whose decoded, trimmed text starts with "{" or "[", detect
\* returns application/json / json exactly when the text is well-formed JSON;
\* and a payload whose decoded text does not start so (or that does not
\* decode) is never classified as JSON.
C6_JsonNeverMisreported ==
    (call = "detectMimeType" /\ NoPrefixNoSignature(arg)) =>
        IF ~atob(arg).threw /\ StartsLikeJson(DecodedText(arg))
        THEN (guess = Return(JsonGuess)) <=> JSONparse(DecodedText(arg))
        ELSE guess.value # JsonGuess

\* C6 witness: a text that starts with "{" or "[" and is not well-formed JSON
\* was classified, and not as JSON
C6_Witness ==
    /\ call = "detectMimeType"
    /\ NoPrefixNoSignature(arg)
    /\ ~atob(arg).threw
    /\ StartsLikeJson(DecodedText(arg))
    /\ ~JSONparse(DecodedText(arg))
    /\ guess.kind = "return"
    /\ guess.value # JsonGuess

\* The decoded text holds a character that is neither printable ASCII
\* (0x20-0x7E) nor whitespace (in the sense of the pattern's \s)
HasNonPrintable(decoded) ==
    \E i \in 1..Len(decoded) :
        decoded[i] \notin 32..126 /\ decoded[i] \notin WhiteSpaceChars

\* What the tests that follow the JSON test give, tried in order: XML, HTML,
\* JavaScript keywords, printable text, and the default
AfterJsonRules(decoded) ==
    LET text == trim(decoded)
    IN  IF startsWith(text, <<60>>) THEN XmlGuess
        ELSE IF startsWith(text, DoctypeHtml) \/ includes(toLowerCase(text), HtmlTag)
        THEN HtmlGuess
        ELSE IF includes(text, KwFunction) \/ includes(text, KwConst)
                \/ includes(text, KwLet)
        THEN JavaScriptGuess
        ELSE IF decoded # <<>> /\ ~HasNonPrintable(decoded) THEN TextGuess
        ELSE OctetStreamGuess

\* C7: the heuristic rules are tried in order without skipping: when the
\* decoded, trimmed text starts with "{" or "[" but is not well-formed JSON,
\* detect goes on to the XML, HTML, JavaScript and printable-text tests, so a
\* printable text matching none of the markup or keyword tests gives
\* text/plain / txt, and octet-stream only with a non-printable character.
C7_RulesTriedInOrder ==
    (/\ call = "detectMimeType"
     /\ NoPrefixNoSignature(arg)
     /\ ~atob(arg).threw
     /\ StartsLikeJson(DecodedText(arg))
     /\ ~JSONparse(DecodedText(arg)))
        => guess = Return(AfterJsonRules(atob(arg).value))

\* A cleaned payload: a non-empty string of the base64 grammar
IsPayload(s) == s # <<>> /\ InGrammar(s)

\* C8 as stated: every valid base64 payload that starts with no signature and
\* whose decoded bytes hold a non-printable byte gives
\* application/octet-stream / bin.
C8_Original ==
    (/\ call = "detectMimeType"
     /\ IsPayload(arg)
     /\ MatchingSignatures(arg) = {}
     /\ HasNonPrintable(atob(arg).value))
        => guess = Return(OctetStreamGuess)

\* One of the rules before the printable-text test matches the decoded text:
\* it is well-formed JSON starting with "{" or "[", or it starts with "<", or
\* it contains "<html" (in any case), "function", "const " or "let "
EarlierRuleMatches(decoded) ==
    LET text == trim(decoded)
    IN  \/ StartsLikeJson(text) /\ JSONparse(text)
        \/ startsWith(text, <<60>>)
        \/ includes(toLowerCase(text), HtmlTag)
        \/ includes(text, KwFunction)
        \/ includes(text, KwConst)
        \/ includes(text, KwLet)

\* C8 amended: every valid base64 payload that starts with no signature, whose
\* decoded bytes hold a non-printable byte and whose decoded, trimmed text
\* matches none of the earlier rules (JSON, XML, HTML, JavaScript keywords)
\* gives application/octet-stream / bin.
C8_DefaultFallback ==
    (/\ call = "detectMimeType"
     /\ IsPayload(arg)
     /\ MatchingSignatures(arg) = {}
     /\ HasNonPrintable(atob(arg).value)
     /\ ~EarlierRuleMatches(atob(arg).value))
        => guess = Return(OctetStreamGuess)

\* C8 witness: a valid payload of non-printable bytes that no rule matches got
\* the default
C8_Witness ==
    /\ call = "detectMimeType"
    /\ IsPayload(arg)
    /\ MatchingSignatures(arg) = {}
    /\ HasNonPrintable(atob(arg).value)
    /\ ~EarlierRuleMatches(atob(arg).value)
    /\ guess = Return(OctetStreamGuess)

\* C9 as stated: every input that isValid rejects gives
\* application/octet-stream / bin.
C9_Original ==
    (call = "detectMimeType" /\ ~isValidBase64(arg)) =>
        guess = Return(OctetStreamGuess)

\* The base64 decoder rejects s: once the ASCII whitespace is removed and,
\* when the length is then a multiple of 4, one or two trailing '=' are
\* dropped, the length is 1 mod 4 or a character outside [A-Za-z0-9+/] is left
Undecodable(s) ==
    LET d == SelectSeq(s, IsNotAsciiWhitespace)
        n == Len(d)
        pad == IF n % 4 = 0 /\ n >= 1 /\ d[n] = 61
               THEN (IF n >= 2 /\ d[n - 1] = 61 THEN 2 ELSE 1)
               ELSE 0
    IN  \/ (n - pad) % 4 = 1
        \/ \E i \in 1..(n - pad) : d[i] \notin Base64Alphabet

\* C9 amended: every input that begins with no data-URI prefix and no
\* signature and that the base64 decoder rejects gives
\* application/octet-stream / bin.
C9_GarbageFallsToDefault ==
    (call = "detectMimeType" /\ NoPrefixNoSignature(arg) /\ Undecodable(arg)) =>
        guess = Return(OctetStreamGuess)

\* C9 witness: an input of alphabet characters only, of a length that is 1
\* mod 4, which isValid rejects and the decoder cannot decode, got the default
C9_Witness ==
    /\ call = "detectMimeType"
    /\ NoPrefixNoSignature(arg)
    /\ \A i \in 1..Len(arg) : arg[i] \in Base64Alphabet
    /\ Len(arg) % 4 = 1
    /\ ~isValidBase64(arg)
    /\ guess = Return(OctetStreamGuess)

\* The positions k at which s reads data:<mime>;base64, with <mime> = s[6..k-1]
\* non-empty and free of ';'
DeclaredMimeEnds(s) ==
    {k \in 7..Len(s) :
        /\ startsWith(s, DataColon)
        /\ \A i \in 6..(k - 1) : s[i] # 59
        /\ startsWithAt(s, SemiBase64Comma, k)}

DeclaredMime(s) == SubSeq(s, 6, SetMin(DeclaredMimeEnds(s)) - 1)

\* The text of mime after its first '/' (empty when it has none)
AfterFirstSlash(mime) ==
    IF \E i \in 1..Len(mime) : mime[i] = 47
    THEN LET a == SetMin({i \in 1..Len(mime) : mime[i] = 47})
         IN  Slice(mime, a + 1, Len(mime))
    ELSE <<>>

\* The text of s before its first '/' (all of it when it has none)
BeforeFirstSlash(s) ==
    IF \E i \in 1..Len(s) : s[i] = 47
    THEN Slice(s, 1, SetMin({i \in 1..Len(s) : s[i] = 47}) - 1)
    ELSE s

\* s with every character outside [a-z0-9], case-insensitive, removed
OnlyAlnum(s) == SelectSeq(s, LAMBDA c : c \in (48..57) \cup (65..90) \cup (97..122))

OrBin(s) == IF s = <<>> THEN Bin ELSE s

\* C10 as stated: for an input that begins with data:<mime>;base64, detect
\* returns <mime> verbatim, whatever follows the comma, and ext is the text of
\* <mime> after '/' with every character outside [a-z0-9] (case-insensitive)
\* removed, or "bin" when that is empty or <mime> has no '/'.
C10_Original ==
    (call = "detectMimeType" /\ DeclaredMimeEnds(arg) # {}) =>
        guess = Return([mime |-> DeclaredMime(arg),
                        ext |-> OrBin(OnlyAlnum(AfterFirstSlash(DeclaredMime(arg))))])

\* C10 amended: as stated, but ext is taken from the text of <mime> between
\* its first '/' and its next '/' (or its end).
C10_DataUriRule ==
    (call = "detectMimeType" /\ DeclaredMimeEnds(arg) # {}) =>
        guess = Return([mime |-> DeclaredMime(arg),
                        ext |-> OrBin(OnlyAlnum(BeforeFirstSlash(
                                    AfterFirstSlash(DeclaredMime(arg)))))])

\* C10 witness: the declared type was returned for a payload that starts with
\* the PDF signature
C10_Witness ==
    /\ call = "detectMimeType"
    /\ DeclaredMimeEnds(arg) # {}
    /\ startsWith(Slice(arg, SetMin(DeclaredMimeEnds(arg)) + 8, Len(arg)), PdfSignature)
    /\ guess.kind = "return"
    /\ guess.value.mime = DeclaredMime(arg)
    /\ guess.value # PdfGuess

\* s is empty or made of whitespace only
OnlyWhiteSpace(s) ==
    \A i \in DOMAIN s : s[i] \in WhiteSpaceChars \cup LineTerminators

\* C13: an empty payload is invalid: isValid returns false for the empty
\* string and for every input that consists only of whitespace (whose cleaned
\* payload is therefore empty).
C13_EmptyPayloadInvalid ==
    (call = "isValidBase64" /\ OnlyWhiteSpace(arg)) => ~isValid

(***************************************************************************)
(* Specification: detectMimeType called repeatedly by a caller that may    *)
(* write to the object it was handed.  MIME_SIGNATURES is a module-level   *)
(* object whose entries are objects themselves; a result that is one of    *)
(* them is the same object for every caller.                               *)
(***************************************************************************)

\* The payloads the calls are made on: at most one piece, with or without a
\* data-URI prefix
AliasInputs ==
    Concats(1) \cup {lead \o body : lead \in Leads, body \in Concats(1)}

\* What a caller may assign to a field of the object it holds: "x"
Scribble == <<120>>

\* The object detectMimeType(base64) returns: `typeInfo` of line 58 is the
\* table's own entry; every other return statement builds a new object
ReturnedObject(table, base64) ==
    IF DataUriPrefix(base64).matched THEN 0
    ELSE SignatureLoop(table, base64, 1)

\* What the calls of this specification leave alone
otherThanAlias == <<decoderVars, coordVars, pdfVars, storageVars,
    scriptVars, overlayVars>>

InitAlias ==
    /\ arg \in AliasInputs
    /\ call = "none"
    /\ cleanedText = <<>>
    /\ cleanedAgain = <<>>
    /\ isValid = FALSE
    /\ guess = Normal
    /\ AliasIdle
    /\ DecoderIdle
    /\ CoordIdle
    /\ PdfIdle
    /\ StorageIdle
    /\ ScriptIdle
    /\ OverlayIdle

\* const result = detectMimeType(payload), for any payload
DetectCall ==
    \E payload \in AliasInputs :
        /\ arg' = payload
        /\ call' = "detectMimeType"
        /\ guess' = detectWith(signatures, payload)
        /\ held' = ReturnedObject(signatures, payload)
        /\ UNCHANGED <<cleanedText, cleanedAgain, isValid, signatures>>
        /\ UNCHANGED otherThanAlias

\* result.mime = "x": the caller writes to the object it was handed
MutateMime ==
    /\ call \in {"detectMimeType", "mutated"}
    /\ guess.kind = "return"
    /\ call' = "mutated"
    /\ guess' = [guess EXCEPT !.value.mime = Scribble]
    /\ signatures' = IF held = 0 THEN signatures
                     ELSE [signatures EXCEPT ![held].typeInfo.mime = Scribble]
    /\ UNCHANGED <<arg, cleanedText, cleanedAgain, isValid, held>>
    /\ UNCHANGED otherThanAlias

\* result.ext = "x"
MutateExt ==
    /\ call \in {"detectMimeType", "mutated"}
    /\ guess.kind = "return"
    /\ call' = "mutated"
    /\ guess' = [guess EXCEPT !.value.ext = Scribble]
    /\ signatures' = IF held = 0 THEN signatures
                     ELSE [signatures EXCEPT ![held].typeInfo.ext = Scribble]
    /\ UNCHANGED <<arg, cleanedText, cleanedAgain, isValid, held>>
    /\ UNCHANGED otherThanAlias

NextAlias ==
    \/ DetectCall
    \/ MutateMime
    \/ MutateExt

SpecAlias == InitAlias /\ [][NextAlias]_vars

\* C14: detect returns a fresh result and shares no mutable state between
\* calls: whatever callers wrote to the objects earlier calls returned, the
\* signature table is what it was at start, and the result of a detect call
\* is what detect gives for that payload with the table as it was at start.
C14_NoSharedMutableState ==
    /\ signatures = MIME_SIGNATURES
    /\ call = "detectMimeType" => guess = detectMimeType(arg)

(***************************************************************************)
(* Specification: the Base64Decoder component (base64-decoder.tsx)         *)
(***************************************************************************)

\* The texts the textarea may hold: at most one piece, with or without a
\* data-URI prefix, two padded payloads and a text of two pieces
DecoderInputs ==
    AliasInputs \cup {
        \* "fQ=="
        <<102, 81, 61, 61>>,
        \* "AQI=": the bytes 01 02
        <<65, 81, 73, 61>>,
        \* "AQID\nAQID"
        <<65, 81, 73, 68, 10, 65, 81, 73, 68>> }

\* "document."
DocumentDot == <<100, 111, 99, 117, 109, 101, 110, 116, 46>>

\* Mutant of TrailingEquals: the pattern /=$/, which matches one "=" at most
TrailingEqualsOnce(s) == IF s # <<>> /\ s[Len(s)] = 61 THEN 1 ELSE 0

\* (cleaned.match(/=+$/) || [""])[0].length
RECURSIVE TrailingEquals(_)
TrailingEquals(s) ==
    IF s # <<>> /\ s[Len(s)] = 61
    THEN 1 + TrailingEquals(SubSeq(s, 1, Len(s) - 1))
    ELSE 0

\* Mutant of TryProcess: the validity test is dropped
TryProcessUnvalidated(text) ==
    LET cleaned == cleanBase64(text)
        detected == detectMimeType(cleaned)
        padding == TrailingEquals(cleaned)
        size == ((Len(cleaned) * 3) \div 4) - padding
    IN  [kind |-> "normal", message |-> "",
         calls |-> <<"cleanBase64", "detectMimeType">>,
         document |->
            [isNull |-> FALSE,
             data |-> DataColon \o detected.value.mime \o SemiBase64Comma \o cleaned,
             mimeType |-> detected.value.mime,
             extension |-> detected.value.ext,
             filename |-> DocumentDot \o detected.value.ext,
             size |-> size]]

\* The try block of processBase64: how it completes, the document it sets
\* and the core functions it calls
TryProcess(text) ==
    LET cleaned == cleanBase64(text)
        detected == detectMimeType(cleaned)
        padding == TrailingEquals(cleaned)
        size == ((Len(cleaned) * 3) \div 4) - padding
    IN  IF ~isValidBase64(text)
        THEN [kind |-> "throw",
              message |-> "Invalid base64 string. Please check your input.",
              calls |-> <<"cleanBase64", "isValidBase64">>,
              document |-> NullDocument]
        ELSE IF detected.kind = "throw"
        THEN [kind |-> "throw",
              message |-> "Failed to decode base64 string",
              calls |-> <<"cleanBase64", "isValidBase64", "detectMimeType">>,
              document |-> NullDocument]
        ELSE [kind |-> "normal", message |-> "",
              calls |-> <<"cleanBase64", "isValidBase64", "detectMimeType">>,
              document |->
                 [isNull |-> FALSE,
                  data |-> DataColon \o detected.value.mime \o SemiBase64Comma \o cleaned,
                  mimeType |-> detected.value.mime,
                  extension |-> detected.value.ext,
                  filename |-> DocumentDot \o detected.value.ext,
                  size |-> size]]

\* What the calls of this specification leave alone
otherThanDecoder == <<coreVars, aliasVars, coordVars, pdfVars, storageVars,
    scriptVars, overlayVars>>

InitDecoder ==
    /\ DecoderIdle
    /\ CoreIdle
    /\ AliasUntracked
    /\ CoordIdle
    /\ PdfIdle
    /\ StorageIdle
    /\ ScriptIdle
    /\ OverlayIdle

\* onChange={(e) => setInput(e.target.value)}
SetInput ==
    \E text \in DecoderInputs :
        /\ inputState' = text
        /\ processed' = NotProcessed
        /\ UNCHANGED <<document, error, isProcessing>>
        /\ UNCHANGED otherThanDecoder

\* processBase64, run by the Decode button, which is disabled while
\* !input.trim() || isProcessing
ProcessBase64 ==
    /\ trim(inputState) # <<>>
    /\ ~isProcessing
    /\ \E try \in {TryProcess(inputState)} :
           /\ document' = try.document
           /\ error' = IF try.kind = "throw"
                       THEN [isNull |-> FALSE, message |-> try.message]
                       ELSE NullError
           /\ processed' = [completion |-> "normal", input |-> inputState,
                            calls |-> try.calls]
    /\ isProcessing' = FALSE
    /\ UNCHANGED inputState
    /\ UNCHANGED otherThanDecoder

\* handleClear, run by the Clear button, which is shown while input || document
HandleClear ==
    /\ inputState # <<>> \/ ~document.isNull
    /\ inputState' = <<>>
    /\ document' = NullDocument
    /\ error' = NullError
    /\ processed' = NotProcessed
    /\ UNCHANGED isProcessing
    /\ UNCHANGED otherThanDecoder

\* handlePaste, the clipboard read fulfilled with a text
PasteFulfilled ==
    \E text \in DecoderInputs :
        /\ inputState' = text
        /\ processed' = NotProcessed
        /\ UNCHANGED <<document, error, isProcessing>>
        /\ UNCHANGED otherThanDecoder

\* handlePaste, the clipboard read rejected
PasteRejected ==
    /\ error' = [isNull |-> FALSE, message |-> "Failed to read from clipboard"]
    /\ processed' = NotProcessed
    /\ UNCHANGED <<inputState, document, isProcessing>>
    /\ UNCHANGED otherThanDecoder

NextDecoder ==
    \/ SetInput
    \/ ProcessBase64
    \/ HandleClear
    \/ PasteFulfilled
    \/ PasteRejected

SpecDecoder == InitDecoder /\ [][NextDecoder]_vars

\* C15: malformed input stops the decode pipeline: when processBase64 has run
\* on an input for which isValid is false, the error message is set, the
\* decoded document is null, isProcessing is false, detect was not called and
\* the handler returned normally (no exception escaped it).
C15_MalformedStopsPipeline ==
    (processed.completion # "none" /\ ~isValidBase64(processed.input)) =>
        /\ ~error.isNull
        /\ error.message # ""
        /\ document.isNull
        /\ ~isProcessing
        /\ \A i \in DOMAIN processed.calls : processed.calls[i] # "detectMimeType"
        /\ processed.completion = "normal"

\* processBase64 has run on an invalid input
C15_Witness ==
    /\ processed.completion = "normal"
    /\ ~isValidBase64(processed.input)
    /\ error = [isNull |-> FALSE,
                message |-> "Invalid base64 string. Please check your input."]

\* C18: in the decode pipeline, when the user's input carries a
\* data:<mime>;base64, prefix and a valid payload, the document that
\* processBase64 sets has the declared <mime> as its MIME type, not one
\* derived from signatures or heuristics.
C18_PipelineKeepsDeclaredMime ==
    (/\ processed.completion # "none"
     /\ DataUriPrefix(processed.input).matched
     /\ isValidBase64(processed.input))
        => /\ ~document.isNull
           /\ document.mimeType = DataUriPrefix(processed.input).mime

(***************************************************************************)
(* canvasToPdfCoordinates (document-preview.tsx).  The numbers handed to   *)
(* it are integers, on which JavaScript's +, - and * are exact; a quotient *)
(* is kept as a fraction in lowest terms, or is Infinity, -Infinity or NaN *)
(* as IEEE 754 division gives for a zero divisor.                          *)
(***************************************************************************)

\* Math.abs
Abs(n) == IF n < 0 THEN -n ELSE n

RECURSIVE GCD(_, _)
GCD(m, n) == IF n = 0 THEN m ELSE GCD(n, m % n)

Infinity == [kind |-> "Infinity", num |-> 1, den |-> 0]
NegativeInfinity == [kind |-> "-Infinity", num |-> -1, den |-> 0]
NaN == [kind |-> "NaN", num |-> 0, den |-> 0]

\* n / d for integers n and d (d = 0 is +0)
Divide(n, d) ==
    IF d = 0
    THEN IF n = 0 THEN NaN ELSE IF n > 0 THEN Infinity ELSE NegativeInfinity
    ELSE LET g == GCD(Abs(n), Abs(d))
             sign == IF d < 0 THEN -1 ELSE 1
         IN  Number(sign * (n \div g), Abs(d) \div g)

\* Math.abs(det) < 1e-10, for an integer det: no integer but 0 is that small
IsDegenerate(det) == Abs(det) < 1

\* const det = a * d - b * c
Determinant(transform) ==
    transform[1] * transform[4] - transform[2] * transform[3]

\* Fallback for a degenerate matrix: the scale-based conversion
ScaleFallback(canvasX, canvasY, vp) ==
    [pdfX |-> Divide(canvasX, vp.scale),
     pdfY |-> Divide(vp.height - canvasY, vp.scale)]

\* Mutant of InverseTransform: the off-diagonal terms with the wrong sign
InverseTransformSignSlip(canvasX, canvasY, transform) ==
    LET a == transform[1]
        b == transform[2]
        c == transform[3]
        d == transform[4]
        e == transform[5]
        f == transform[6]
        det == Determinant(transform)
    IN  [pdfX |-> Divide(d * (canvasX - e) + c * (canvasY - f), det),
         pdfY |-> Divide(b * (canvasX - e) + a * (canvasY - f), det)]

\* Apply the inverse of the affine transform [a, b, c, d, e, f]
InverseTransform(canvasX, canvasY, transform) ==
    LET a == transform[1]
        b == transform[2]
        c == transform[3]
        d == transform[4]
        e == transform[5]
        f == transform[6]
        det == Determinant(transform)
    IN  [pdfX |-> Divide(d * (canvasX - e) - c * (canvasY - f), det),
         pdfY |-> Divide((-b) * (canvasX - e) + a * (canvasY - f), det)]

\* Mutant of canvasToPdfCoordinates: the viewport's own method is not consulted
canvasToPdfCoordinatesManual(canvasX, canvasY, vp) ==
    IF IsDegenerate(Determinant(vp.transform))
    THEN ScaleFallback(canvasX, canvasY, vp)
    ELSE InverseTransform(canvasX, canvasY, vp.transform)

canvasToPdfCoordinates(canvasX, canvasY, vp) ==
    IF vp.convertToPdfPoint.defined
    THEN [pdfX |-> vp.convertToPdfPoint.returns[1],
          pdfY |-> vp.convertToPdfPoint.returns[2]]
    ELSE IF IsDegenerate(Determinant(vp.transform))
    THEN ScaleFallback(canvasX, canvasY, vp)
    ELSE InverseTransform(canvasX, canvasY, vp.transform)

\* "The viewport.transform converts PDF coords to canvas coords":
\* | a c e |   | x |
\* | b d f | * | y |
\*             | 1 |
ForwardTransform(x, y, transform) ==
    <<transform[1] * x + transform[3] * y + transform[5],
      transform[2] * x + transform[4] * y + transform[6]>>

(***************************************************************************)
(* Specification: canvasToPdfCoordinates applied to bounded viewports      *)
(***************************************************************************)

MaxEntry == 2

\* The entries a, b, c, d of a transform
Entries == -1..MaxEntry

\* The translations (e, f) of a transform
Translations == {<<0, 0>>, <<1, -2>>}

\* The (scale, height) pairs of a viewport
ScaleHeights == {<<0, 3>>, <<1, 0>>, <<2, 3>>}

\* viewport.convertToPdfPoint: absent, or a method of the PDF library that
\* returns what the library decides
ConvertMethods ==
    {[defined |-> FALSE, returns |-> <<Number(0, 1), Number(0, 1)>>],
     [defined |-> TRUE, returns |-> <<Number(7, 1), NaN>>]}

Viewports ==
    {[transform |-> <<a, b, c, d, t[1], t[2]>>, scale |-> sh[1], height |-> sh[2],
      convertToPdfPoint |-> m] :
        a \in Entries, b \in Entries, c \in Entries, d \in Entries,
        t \in Translations, sh \in ScaleHeights, m \in ConvertMethods}

\* Coordinates of points, in document space or on the canvas
Coordinates == {-1, 0, 2}

\* What the calls of this specification leave alone
otherThanCoord == <<coreVars, aliasVars, decoderVars, pdfVars, storageVars,
    scriptVars, overlayVars>>

InitCoord ==
    /\ viewport \in Viewports
    /\ docPoint \in Coordinates \X Coordinates
    /\ canvasPoint = <<0, 0>>
    /\ pdfPoint = [pdfX |-> Number(0, 1), pdfY |-> Number(0, 1)]
    /\ coordStep = "start"
    /\ CoreIdle
    /\ AliasUntracked
    /\ DecoderIdle
    /\ PdfIdle
    /\ StorageIdle
    /\ ScriptIdle
    /\ OverlayIdle

\* The page renders docPoint at the canvas position the transform gives
Project ==
    /\ coordStep = "start"
    /\ canvasPoint' = ForwardTransform(docPoint[1], docPoint[2], viewport.transform)
    /\ coordStep' = "forward"
    /\ UNCHANGED <<viewport, docPoint, pdfPoint>>
    /\ UNCHANGED otherThanCoord

\* handleMouseMove: the pointer is at some position of the canvas
MouseMove ==
    /\ coordStep = "start"
    /\ canvasPoint' \in Coordinates \X Coordinates
    /\ coordStep' = "pointer"
    /\ UNCHANGED <<viewport, docPoint, pdfPoint>>
    /\ UNCHANGED otherThanCoord

\* const { pdfX, pdfY } = canvasToPdfCoordinates(canvasX, canvasY, viewport)
Convert ==
    /\ coordStep \in {"forward", "pointer"}
    /\ pdfPoint' = canvasToPdfCoordinates(canvasPoint[1], canvasPoint[2], viewport)
    /\ coordStep' = IF coordStep = "forward" THEN "forward.converted"
                    ELSE "pointer.converted"
    /\ UNCHANGED <<viewport, docPoint, canvasPoint>>
    /\ UNCHANGED otherThanCoord

NextCoord ==
    \/ Project
    \/ MouseMove
    \/ Convert

SpecCoord == InitCoord /\ [][NextCoord]_vars

\* q is within 1e-6 of the integer x
WithinTolerance(q, x) ==
    /\ q.kind = "finite"
    /\ Abs(q.num - x * q.den) * 1000000 <= q.den

IsFinite(q) == q.kind = "finite"

\* C12: degenerate transform: for a viewport whose scale is 0 (and whose
\* determinant is therefore 0), canvasToPdfCoordinates returns finite numbers
\* for pdfX and pdfY through its fallback branch, for every pixel position.
C12_DegenerateIsFinite ==
    (/\ coordStep \in {"forward.converted", "pointer.converted"}
     /\ ~viewport.convertToPdfPoint.defined
     /\ viewport.scale = 0
     /\ Determinant(viewport.transform) = 0)
        => IsFinite(pdfPoint.pdfX) /\ IsFinite(pdfPoint.pdfY)

\* q is the JavaScript quotient n / d of the integers n and d
IsQuotient(q, n, d) ==
    IF d = 0
    THEN q.kind = (IF n = 0 THEN "NaN" ELSE IF n > 0 THEN "Infinity" ELSE "-Infinity")
    ELSE IsFinite(q) /\ q.den > 0 /\ q.num * d = n * q.den

\* The result the two formulas give for the pixel (px, py) and the viewport vp
IsFormulaResult(result, px, py, vp) ==
    LET a == vp.transform[1]
        b == vp.transform[2]
        c == vp.transform[3]
        d == vp.transform[4]
        e == vp.transform[5]
        f == vp.transform[6]
        det == a * d - b * c
    IN  IF det = 0
        THEN /\ IsQuotient(result.pdfX, px, vp.scale)
             /\ IsQuotient(result.pdfY, vp.height - py, vp.scale)
        ELSE /\ IsQuotient(result.pdfX, d * (px - e) - c * (py - f), det)
             /\ IsQuotient(result.pdfY, (-b) * (px - e) + a * (py - f), det)

\* C19 as stated: the result is a function of the pixel, the transform, the
\* scale and the height only: the scale-only formula when the determinant
\* is (nearly) zero, the inverse affine map otherwise.
C19_Original ==
    coordStep \in {"forward.converted", "pointer.converted"}
        => IsFormulaResult(pdfPoint, canvasPoint[1], canvasPoint[2], viewport)

\* C19: branch selection of the coordinate transformer: for a viewport with a
\* convertToPdfPoint method the result is what that method returns; for a
\* viewport without one it is (pixelX / scale, (height - pixelY) / scale) when
\* the determinant is (nearly) zero and the inverse affine map otherwise.
C19_BranchSelection ==
    coordStep \in {"forward.converted", "pointer.converted"}
        => IF viewport.convertToPdfPoint.defined
           THEN /\ pdfPoint.pdfX = viewport.convertToPdfPoint.returns[1]
                /\ pdfPoint.pdfY = viewport.convertToPdfPoint.returns[2]
           ELSE IsFormulaResult(pdfPoint, canvasPoint[1], canvasPoint[2], viewport)

\* The fallback branch was taken for a pointer position off the origin
C19_Witness ==
    /\ coordStep = "pointer.converted"
    /\ ~viewport.convertToPdfPoint.defined
    /\ viewport.transform = <<1, 2, 1, 2, 1, -2>>
    /\ viewport.scale = 2
    /\ viewport.height = 3
    /\ canvasPoint = <<-1, 2>>
    /\ pdfPoint = [pdfX |-> Number(-1, 2), pdfY |-> Number(1, 2)]

(***************************************************************************)
(* Specification: the PDFViewer component (document-preview.tsx).  Scales  *)
(* and lengths are counted in quarters: scale 3 is 0.75 (75%), 16 is 4.    *)
(***************************************************************************)

\* pdf.numPages of the documents loaded
PageCounts == {1, 2}

MaxInFlight == 2

Min(m, n) == IF m < n THEN m ELSE n
Max(m, n) == IF m > n THEN m ELSE n

\* The size of page p of the document, in points: odd pages are upright,
\* even pages lie on their side
PageSize(p) ==
    IF p % 2 = 1 THEN [width |-> 2, height |-> 3] ELSE [width |-> 3, height |-> 2]

\* page.getViewport({ scale }) of page p
GetViewport(p, s) ==
    [isNull |-> FALSE, width |-> PageSize(p).width * s,
     height |-> PageSize(p).height * s, scale |-> s]

\* Mutant of ZoomedIn: no cap
ZoomedInUncapped(s) == s + 1

\* Math.min(s + 0.25, 4)
ZoomedIn(s) == Min(s + 1, 16)

\* Math.max(s - 0.25, 0.5)
ZoomedOut(s) == Max(s - 1, 2)

\* The cleanup of an effect: `isMounted = false` in the closure of each of
\* its earlier runs
CleanedUp(calls) == [i \in DOMAIN calls |-> [calls[i] EXCEPT !.isMounted = FALSE]]

\* A sequence without its i-th element
Without(calls, i) ==
    [k \in 1..(Len(calls) - 1) |-> IF k < i THEN calls[k] ELSE calls[k + 1]]

\* The render effect for the dependencies [pdfDoc, page, zoom], run because
\* one of them changed: the cleanup of the effect before it sets that run's
\* isMounted to false, then renderPage starts and awaits pdfDoc.getPage(page)
RenderEffect(doc, page, zoom) ==
    IF doc.isNull THEN CleanedUp(renders)
    ELSE Append(CleanedUp(renders), [page |-> page, scale |-> zoom, isMounted |-> TRUE,
                                     awaiting |-> "getPage"])

\* What the handlers of this specification leave alone
otherThanPdf == <<coreVars, aliasVars, decoderVars, coordVars, storageVars,
    scriptVars, overlayVars>>

\* <PDFViewer data={data} /> or <PDFViewer data={data} isFullscreen />, mounted
InitPdf ==
    /\ pdfDoc = NullPdfDoc
    /\ loading = TRUE
    /\ loadError = FALSE
    /\ currentPage = 1
    /\ totalPages = 0
    /\ scale \in {3, 4}
    /\ storedViewport = NullViewport
    /\ canvas = DefaultCanvas
    /\ renders = <<>>
    /\ loads = <<[isMounted |-> TRUE]>>
    /\ mounted = TRUE
    /\ CoreIdle
    /\ AliasUntracked
    /\ DecoderIdle
    /\ CoordIdle
    /\ StorageIdle
    /\ ScriptIdle
    /\ OverlayIdle

\* The loading view and the error view replace the viewer, canvas included
CanvasShown == mounted /\ ~loading /\ ~loadError

\* The data prop changes: the load effect is cleaned up and runs again, up
\* to `await loadPdfJs()`; the loading view replaces the canvas
DataChanged ==
    /\ mounted
    /\ Len(loads) + Len(renders) < MaxInFlight
    /\ loads' = Append(CleanedUp(loads), [isMounted |-> TRUE])
    /\ loading' = TRUE
    /\ loadError' = FALSE
    /\ canvas' = DefaultCanvas
    /\ UNCHANGED <<pdfDoc, currentPage, totalPages, scale, storedViewport, renders,
                   mounted>>
    /\ UNCHANGED otherThanPdf

\* Mutant of StillMounted: the flag is not consulted
StillMountedUnchecked(load) == TRUE

\* if (isMounted)
StillMounted(load) == load.isMounted

\* loadPdf after `await loadingTask.promise`: the document is loaded
LoadPdfFulfilled ==
    \E i \in DOMAIN loads :
        /\ loads' = Without(loads, i)
        /\ IF StillMounted(loads[i])
              THEN /\ \E numPages \in PageCounts :
                         /\ pdfDoc' = [isNull |-> FALSE, numPages |-> numPages]
                         /\ totalPages' = numPages
                         /\ renders' = RenderEffect([isNull |-> FALSE,
                                                     numPages |-> numPages], 1, scale)
                   /\ currentPage' = 1
                   /\ loading' = FALSE
              ELSE UNCHANGED <<pdfDoc, totalPages, renders, currentPage, loading>>
        /\ UNCHANGED <<loadError, scale, storedViewport, canvas, mounted>>
        /\ UNCHANGED otherThanPdf

\* loadPdf: atob, the script or getDocument failed
LoadPdfRejected ==
    \E i \in DOMAIN loads :
        /\ loads' = Without(loads, i)
        /\ IF StillMounted(loads[i])
              THEN /\ loadError' = TRUE
                   /\ loading' = FALSE
              ELSE UNCHANGED <<loadError, loading>>
        /\ UNCHANGED <<pdfDoc, currentPage, totalPages, scale, storedViewport, canvas,
                       renders, mounted>>
        /\ UNCHANGED otherThanPdf

\* A renderPage call whose component is gone: what it was started for is
\* never used again
Orphaned(render) ==
    [page |-> 0, scale |-> 0, isMounted |-> FALSE, awaiting |-> render.awaiting]

\* The viewer unmounts: both effects are cleaned up, and the component's
\* state and its canvas are discarded
Unmount ==
    /\ mounted
    /\ mounted' = FALSE
    /\ loads' = CleanedUp(loads)
    /\ renders' = [i \in DOMAIN renders |-> Orphaned(renders[i])]
    /\ pdfDoc' = NullPdfDoc
    /\ loading' = TRUE
    /\ loadError' = FALSE
    /\ currentPage' = 1
    /\ totalPages' = 0
    /\ scale' = 3
    /\ storedViewport' = NullViewport
    /\ canvas' = DefaultCanvas
    /\ UNCHANGED otherThanPdf

\* The toolbar is rendered once the document is loaded
ToolbarShown == CanvasShown

\* A state update to (page, zoom): the render effect runs if it changed them
Rerender(page, zoom) ==
    renders' = IF page = currentPage /\ zoom = scale THEN renders
               ELSE RenderEffect(pdfDoc, page, zoom)

\* handleZoomIn, behind the button that is disabled when scale >= 4
HandleZoomIn ==
    /\ ToolbarShown
    /\ ~(scale >= 16)
    /\ Len(loads) + Len(renders) < MaxInFlight
    /\ scale' = ZoomedIn(scale)
    /\ Rerender(currentPage, ZoomedIn(scale))
    /\ UNCHANGED <<pdfDoc, loading, loadError, currentPage, totalPages, storedViewport,
                   canvas, loads, mounted>>
    /\ UNCHANGED otherThanPdf

\* handleZoomOut, behind the button that is disabled when scale <= 0.5
HandleZoomOut ==
    /\ ToolbarShown
    /\ ~(scale <= 2)
    /\ Len(loads) + Len(renders) < MaxInFlight
    /\ scale' = ZoomedOut(scale)
    /\ Rerender(currentPage, ZoomedOut(scale))
    /\ UNCHANGED <<pdfDoc, loading, loadError, currentPage, totalPages, storedViewport,
                   canvas, loads, mounted>>
    /\ UNCHANGED otherThanPdf

\* Mutant of PageBefore: no floor at the first page
PageBeforeUnclamped(p) == p - 1

\* Math.max(1, p - 1)
PageBefore(p) == Max(1, p - 1)

\* Math.min(totalPages, p + 1)
PageAfter(p) == Min(totalPages, p + 1)

\* onClick={() => setCurrentPage((p) => Math.max(1, p - 1))} of the button
\* rendered when totalPages > 1 and disabled when currentPage <= 1
PreviousPage ==
    /\ ToolbarShown
    /\ totalPages > 1
    /\ ~(currentPage <= 1)
    /\ Len(loads) + Len(renders) < MaxInFlight
    /\ currentPage' = PageBefore(currentPage)
    /\ Rerender(PageBefore(currentPage), scale)
    /\ UNCHANGED <<pdfDoc, loading, loadError, totalPages, scale, storedViewport, canvas,
                   loads, mounted>>
    /\ UNCHANGED otherThanPdf

\* onClick={() => setCurrentPage((p) => Math.min(totalPages, p + 1))} of the
\* button rendered when totalPages > 1 and disabled when
\* currentPage >= totalPages
NextPage ==
    /\ ToolbarShown
    /\ totalPages > 1
    /\ ~(currentPage >= totalPages)
    /\ Len(loads) + Len(renders) < MaxInFlight
    /\ currentPage' = PageAfter(currentPage)
    /\ Rerender(PageAfter(currentPage), scale)
    /\ UNCHANGED <<pdfDoc, loading, loadError, totalPages, scale, storedViewport, canvas,
                   loads, mounted>>
    /\ UNCHANGED otherThanPdf

\* A renderPage call that awaits page.render(...).promise: none of its
\* variables is read again
Painting == [page |-> 0, scale |-> 0, isMounted |-> FALSE, awaiting |-> "render"]

\* renderPage after `await pdfDoc.getPage(currentPage)`, up to
\* `await page.render(...)`.  The library answers the requests for one page
\* in the order they were made.  Without a canvas, canvasRef.current is null
\* and `canvas.getContext` throws: the catch logs and the call ends.
GetPageFulfilled ==
    \E i \in DOMAIN renders :
        /\ renders[i].awaiting = "getPage"
        /\ \A j \in 1..(i - 1) :
              renders[j].page = renders[i].page => renders[j].awaiting # "getPage"
        /\ IF CanvasShown
              THEN LET pageViewport == GetViewport(renders[i].page, renders[i].scale)
                   IN  /\ canvas' = [width |-> pageViewport.width,
                                     height |-> pageViewport.height]
                       /\ storedViewport' = IF renders[i].isMounted THEN pageViewport
                                            ELSE storedViewport
                       /\ renders' = [renders EXCEPT ![i] = Painting]
              ELSE /\ renders' = Without(renders, i)
                   /\ UNCHANGED <<canvas, storedViewport>>
        /\ UNCHANGED <<pdfDoc, loading, loadError, currentPage, totalPages, scale,
                       loads, mounted>>
        /\ UNCHANGED otherThanPdf

\* renderPage after `await page.render(...).promise`, fulfilled or rejected
RenderSettled ==
    \E i \in DOMAIN renders :
        /\ renders[i].awaiting = "render"
        /\ renders' = Without(renders, i)
        /\ UNCHANGED <<pdfDoc, loading, loadError, currentPage, totalPages, scale,
                       storedViewport, canvas, loads, mounted>>
        /\ UNCHANGED otherThanPdf

NextPdf ==
    \/ DataChanged
    \/ LoadPdfFulfilled
    \/ LoadPdfRejected
    \/ Unmount
    \/ HandleZoomIn
    \/ HandleZoomOut
    \/ PreviousPage
    \/ NextPage
    \/ GetPageFulfilled
    \/ RenderSettled

SpecPdf == InitPdf /\ [][NextPdf]_vars

\* C17: zoom stays within 50%-400%: from the initial scale (0.75 inline, 1 in
\* fullscreen) every sequence of zoom-in and zoom-out operations leaves the
\* scale in [0.5, 4]; zoom-in adds 0.25 but stops at 4, zoom-out takes 0.25
\* off but stops at 0.5, and neither changes the current page.
C17_ZoomStaysInRange ==
    /\ [](/\ scale >= 2 /\ scale <= 16
          /\ ZoomedIn(16) = 16
          /\ ZoomedOut(2) = 2)
    /\ [][/\ HandleZoomIn =>
                /\ scale' = (IF scale + 1 > 16 THEN 16 ELSE scale + 1)
                /\ currentPage' = currentPage
          /\ HandleZoomOut =>
                /\ scale' = (IF scale - 1 < 2 THEN 2 ELSE scale - 1)
                /\ currentPage' = currentPage]_vars

\* Zoom-in has brought the scale to 400% on the second page, all renders done
C17_Witness ==
    /\ scale = 16
    /\ currentPage = 2
    /\ renders = <<>>

\* A step in which a renderPage call that was superseded resumes after getPage
SupersededRenderResumes ==
    \E i \in DOMAIN renders :
        /\ renders[i].awaiting = "getPage"
        /\ ~renders[i].isMounted
        /\ Len(renders') = Len(renders)
        /\ renders'[i].awaiting = "render"

\* C20: viewport consistency under asynchronous rendering: for any
\* interleaving of page and zoom changes with the completions of the page
\* fetches they start, once no render is in flight the stored viewport is
\* the one computed for the current (page, scale) and the canvas has that
\* viewport's width and height; a render started for a superseded
\* (page, scale) changes neither the stored viewport nor the canvas.
C20_ViewportConsistent ==
    /\ [](CanvasShown /\ renders = <<>> =>
            /\ storedViewport = GetViewport(currentPage, scale)
            /\ canvas.width = storedViewport.width
            /\ canvas.height = storedViewport.height)
    /\ [][SupersededRenderResumes =>
            UNCHANGED <<storedViewport, canvas>>]_vars

(***************************************************************************)
(* Specification: localStorage and the page around the Base64App component *)
(***************************************************************************)

\* STORAGE_KEYS: the key of localStorage behind each name
STORAGE_KEYS ==
    [ENCODER_FILE |-> "b64_encoder_file",
     VIEWER_FILE |-> "b64_viewer_file",
     DECODER_INPUT |-> "b64_decoder_input",
     ACTIVE_TAB |-> "b64_active_tab"]

\* Object.values(STORAGE_KEYS)
StorageKeyValues == {STORAGE_KEYS[name] : name \in DOMAIN STORAGE_KEYS}

\* A key of the same origin that is not the application's
ForeignKey == "other"

\* storage.save and storage.saveString: setItem stores the item, or throws
\* (the quota is exceeded) and the catch leaves the storage as it was
save(store, name, stored) ==
    IF stored THEN store \cup {STORAGE_KEYS[name]} ELSE store

\* storage.remove: removeItem
remove(store, name) == store \ {STORAGE_KEYS[name]}

\* storage.clearAll: removeItem for each of Object.values(STORAGE_KEYS)
clearAll(store) == store \ StorageKeyValues

\* The name under which each file component saves the file it has read
FileKey == [viewer |-> "VIEWER_FILE", encoder |-> "ENCODER_FILE"]

\* FileViewer and FileToBase64
Components == DOMAIN FileKey

\* Scripts run in the page while it is shown, and still run after a
\* beforeunload event until the document is unloaded or frozen
ScriptsRun == lifecycle \in {"active", "leaving"}

otherThanStorage == <<coreVars, aliasVars, decoderVars, coordVars, pdfVars,
    scriptVars, overlayVars>>

\* The page has just been loaded; localStorage holds what earlier sessions
\* and other scripts of the origin left in it
InitStorage ==
    /\ localStorage \in SUBSET (StorageKeyValues \cup {ForeignKey})
    /\ reading = {}
    /\ lifecycle = "active"
    /\ closed = FALSE
    /\ wiped = {}
    /\ shown = [component \in Components |->
                   STORAGE_KEYS[FileKey[component]] \in localStorage]
    /\ cleared = {}
    /\ CoreIdle
    /\ AliasUntracked
    /\ DecoderIdle
    /\ CoordIdle
    /\ PdfIdle
    /\ ScriptIdle
    /\ OverlayIdle

\* Base64App.handleTabChange: the user picks a tab
HandleTabChange ==
    /\ lifecycle = "active"
    /\ \E stored \in BOOLEAN :
          localStorage' = save(localStorage, "ACTIVE_TAB", stored)
    /\ UNCHANGED <<reading, lifecycle, closed, wiped, shown, cleared>>
    /\ UNCHANGED otherThanStorage

\* handleFileSelect up to its await: the user drops a file on the dropzone
\* of a component, which is disabled while the component is processing
HandleFileSelect(component) ==
    /\ lifecycle = "active"
    /\ component \notin reading
    /\ reading' = reading \cup {component}
    /\ cleared' = cleared \ {component}
    /\ UNCHANGED <<localStorage, lifecycle, closed, wiped, shown>>
    /\ UNCHANGED otherThanStorage

\* handleFileSelect after its await, the FileReader's onload having
\* resolved the promise: setFile and storage.save
FileReadFulfilled(component) ==
    /\ ScriptsRun
    /\ component \in reading
    /\ reading' = reading \ {component}
    /\ \E stored \in BOOLEAN :
          localStorage' = save(localStorage, FileKey[component], stored)
    /\ shown' = [shown EXCEPT ![component] = TRUE]
    /\ UNCHANGED <<lifecycle, closed, wiped, cleared>>
    /\ UNCHANGED otherThanStorage

\* handleFileSelect after its await, the promise rejected: the catch logs
FileReadRejected(component) ==
    /\ ScriptsRun
    /\ component \in reading
    /\ reading' = reading \ {component}
    /\ UNCHANGED <<localStorage, lifecycle, closed, wiped, shown, cleared>>
    /\ UNCHANGED otherThanStorage

\* handleClear of FileViewer and of FileToBase64, behind the two clear
\* buttons, which are rendered while `file` is set
HandleClearFile(component) ==
    /\ lifecycle = "active"
    /\ shown[component]
    /\ shown' = [shown EXCEPT ![component] = FALSE]
    /\ localStorage' = remove(localStorage, FileKey[component])
    /\ cleared' = cleared \cup {component}
    /\ UNCHANGED <<reading, lifecycle, closed, wiped>>
    /\ UNCHANGED otherThanStorage

\* handleBeforeUnload: the browser announces that the page is to be left
HandleBeforeUnload ==
    /\ lifecycle = "active"
    /\ localStorage' = clearAll(localStorage)
    /\ lifecycle' = "leaving"
    /\ closed' = TRUE
    /\ wiped' = wiped \cup (localStorage \cap StorageKeyValues)
    /\ UNCHANGED <<reading, shown, cleared>>
    /\ UNCHANGED otherThanStorage

\* handlePageHide: the page is hidden, either kept frozen in the
\* back/forward cache (persisted) or unloaded, which ends its file reads
HandlePageHide(persisted) ==
    /\ ScriptsRun
    /\ IF persisted
          THEN /\ lifecycle' = "bfcache"
               /\ UNCHANGED <<localStorage, reading, closed, wiped>>
          ELSE /\ localStorage' = clearAll(localStorage)
               /\ lifecycle' = "gone"
               /\ reading' = {}
               /\ closed' = TRUE
               /\ wiped' = wiped \cup (localStorage \cap StorageKeyValues)
    /\ UNCHANGED <<shown, cleared>>
    /\ UNCHANGED otherThanStorage

\* The user comes back to the page kept in the back/forward cache
PageShow ==
    /\ lifecycle = "bfcache"
    /\ lifecycle' = "active"
    /\ closed' = FALSE
    /\ wiped' = {}
    /\ UNCHANGED <<localStorage, reading, shown, cleared>>
    /\ UNCHANGED otherThanStorage

\* The browser drops the page kept in the back/forward cache (the tab is
\* closed): no event is delivered to a frozen page
Discard ==
    /\ lifecycle = "bfcache"
    /\ lifecycle' = "gone"
    /\ reading' = {}
    /\ UNCHANGED <<localStorage, closed, wiped, shown, cleared>>
    /\ UNCHANGED otherThanStorage

NextStorage ==
    \/ HandleTabChange
    \/ \E component \in Components : HandleFileSelect(component)
    \/ \E component \in Components : FileReadFulfilled(component)
    \/ \E component \in Components : FileReadRejected(component)
    \/ \E component \in Components : HandleClearFile(component)
    \/ HandleBeforeUnload
    \/ \E persisted \in BOOLEAN : HandlePageHide(persisted)
    \/ PageShow
    \/ Discard

SpecStorage == InitStorage /\ [][NextStorage]_vars

\* C16: once a beforeunload event, or a pagehide event with persisted =
\* false, has been delivered, none of the four application keys is in
\* localStorage, whatever was saved before and whatever file read was in
\* flight when the event fired.
C16_ClosedLeavesNoKey == closed => localStorage \cap StorageKeyValues = {}

\* C21: a page hidden into the back/forward cache (pagehide with persisted =
\* true) has not had the application's localStorage data cleared; the data
\* is cleared only when the page is unloaded.
C21_BfcacheKeepsData == lifecycle = "bfcache" => wiped = {}

\* A step in which a load that was not superseded delivers its document
NewDocumentLoaded == LoadPdfFulfilled /\ pdfDoc' # pdfDoc

\* C22: page navigation stays in range: once a document with at least one
\* page is loaded, 1 <= currentPage <= totalPages after any sequence of
\* previous-page, next-page and zoom operations; previous at page 1 and next
\* at the last page leave currentPage unchanged; the load of a new document
\* resets currentPage to 1.
C22_PageStaysInRange ==
    /\ [](mounted /\ ~pdfDoc.isNull /\ totalPages >= 1 =>
            /\ currentPage >= 1 /\ currentPage <= totalPages
            /\ PageBefore(1) = 1
            /\ PageAfter(totalPages) = totalPages)
    /\ [][/\ PreviousPage => currentPage' = PageBefore(currentPage)
          /\ NextPage => currentPage' = PageAfter(currentPage)
          /\ NewDocumentLoaded => currentPage' = 1]_vars

\* A one-page document has replaced a two-page document: it is shown at page
\* 1 while a render of the old document's second page is still in flight
C22_Witness ==
    /\ CanvasShown
    /\ totalPages = 1
    /\ currentPage = 1
    /\ \E i \in DOMAIN renders : renders[i].page = 2

\* A step in which a loadPdf call ends, fulfilled or rejected: the call
\* whose effect run was cleaned up (superseded), or one that is current
LoadSettles(superseded) ==
    /\ LoadPdfFulfilled \/ LoadPdfRejected
    /\ \E i \in DOMAIN loads :
          /\ loads[i].isMounted = ~superseded
          /\ loads' = Without(loads, i)

\* C26: a superseded PDF load is never applied: when the data prop changes
\* or the viewer unmounts while a load is in flight, the late completion of
\* the old load, success or failure, updates none of pdfDoc, totalPages,
\* currentPage, error and loading; every load that is not superseded ends
\* with loading = false and with pdfDoc set or error set.
C26_SupersededLoadIgnored ==
    [][/\ LoadSettles(TRUE) /\ ~LoadSettles(FALSE) =>
             UNCHANGED <<pdfDoc, totalPages, currentPage, loadError, loading>>
       /\ LoadSettles(FALSE) /\ ~LoadSettles(TRUE) =>
             ~loading' /\ (~pdfDoc'.isNull \/ loadError')]_vars

\* The load for the new data has delivered its document while the load it
\* superseded is still in flight
C26_Witness ==
    /\ mounted
    /\ ~loading
    /\ ~pdfDoc.isNull
    /\ \E i \in DOMAIN loads : ~loads[i].isMounted

(***************************************************************************)
(* Specification: loadPdfJs called by the two viewers of                   *)
(* PDFViewerWithFullscreen                                                 *)
(***************************************************************************)

MaxScripts == 3

otherThanScript == <<coreVars, aliasVars, decoderVars, coordVars, pdfVars,
    storageVars, overlayVars>>

\* The page before either viewer has mounted
InitScript ==
    /\ ScriptIdle
    /\ CoreIdle
    /\ AliasUntracked
    /\ DecoderIdle
    /\ CoordIdle
    /\ PdfIdle
    /\ StorageIdle
    /\ OverlayIdle

\* loadPdfJs, called by a viewer's load effect: the cached instance when
\* window.pdfjsLib is set, else a promise settled by a new script element,
\* which is appended to document.head
CallLoadPdfJs(viewer) ==
    /\ libCalls[viewer].state # "pending"
    /\ IF windowPdfjsLib # 0
          THEN /\ libCalls' = [libCalls EXCEPT ![viewer] =
                                  [state |-> "fulfilled", script |-> 0,
                                   lib |-> windowPdfjsLib]]
               /\ UNCHANGED scripts
          ELSE /\ Len(scripts) < MaxScripts
               /\ scripts' = Append(scripts, "loading")
               /\ libCalls' = [libCalls EXCEPT ![viewer] =
                                  [state |-> "pending", script |-> Len(scripts) + 1,
                                   lib |-> 0]]
    /\ UNCHANGED windowPdfjsLib
    /\ UNCHANGED otherThanScript

\* A script element has loaded: the library's code runs and assigns a new
\* object to window.pdfjsLib, then script.onload resolves the promise of the
\* call that created the element with the global
ScriptOnload(k) ==
    /\ scripts[k] = "loading"
    /\ scripts' = [scripts EXCEPT ![k] = "loaded"]
    /\ windowPdfjsLib' = k
    /\ libCalls' = [viewer \in Viewers |->
                      IF libCalls[viewer].state = "pending" /\ libCalls[viewer].script = k
                      THEN [state |-> "fulfilled", script |-> k, lib |-> k]
                      ELSE libCalls[viewer]]
    /\ UNCHANGED otherThanScript

\* script.onerror: the promise of the call that created the element rejects
ScriptOnerror(k) ==
    /\ scripts[k] = "loading"
    /\ scripts' = [scripts EXCEPT ![k] = "failed"]
    /\ libCalls' = [viewer \in Viewers |->
                      IF libCalls[viewer].state = "pending" /\ libCalls[viewer].script = k
                      THEN [state |-> "rejected", script |-> k, lib |-> 0]
                      ELSE libCalls[viewer]]
    /\ UNCHANGED windowPdfjsLib
    /\ UNCHANGED otherThanScript

NextScript ==
    \/ \E viewer \in Viewers : CallLoadPdfJs(viewer)
    \/ \E k \in DOMAIN scripts : ScriptOnload(k)
    \/ \E k \in DOMAIN scripts : ScriptOnerror(k)

SpecScript == InitScript /\ [][NextScript]_vars

\* C23: PDF.js is loaded at most once: for any interleaving of loadPdfJs
\* calls, a second call issued before the first call's script has loaded
\* included, at most one PDF.js script element is ever appended to the
\* document, and every call resolves to the same library instance.
C23_LoadedAtMostOnce ==
    /\ Len(scripts) <= 1
    /\ \A v, w \in Viewers :
          libCalls[v].state = "fulfilled" /\ libCalls[w].state = "fulfilled"
              => libCalls[v].lib = libCalls[w].lib

\* C24: in the decode tab an error message and a decoded document are never
\* both present: after any sequence of processBase64, paste, clear and input
\* edits, error != null implies document == null.
C24_ErrorExcludesDocument == ~error.isNull => document.isNull

\* C25: clear is final in the file viewer: after handleClear the displayed
\* file stays null and the VIEWER_FILE entry stays absent until the user
\* selects another file, for any interleaving with a file read that was
\* started before the clear and completes after it.
C25_ClearIsFinal ==
    "viewer" \in cleared =>
        /\ ~shown["viewer"]
        /\ STORAGE_KEYS["VIEWER_FILE"] \notin localStorage

\* C28: the XML test shadows the HTML test: for every payload that reaches
\* the text heuristics (no data-URI prefix, no signature, decodable) and whose
\* decoded, trimmed text begins with "<", "<!DOCTYPE html" and "<html"
\* included, detect returns application/xml / xml; and the heuristics return
\* text/html / html only for a text that begins with none of "<", "{", "["
\* and contains "<html" in any case.
C28_XmlShadowsHtml ==
    (call = "detectMimeType" /\ NoPrefixNoSignature(arg)) =>
        /\ (~atob(arg).threw /\ startsWith(DecodedText(arg), <<60>>))
              => guess = Return(XmlGuess)
        /\ guess = Return(HtmlGuess) =>
              /\ ~atob(arg).threw
              /\ ~startsWith(DecodedText(arg), <<60>>)
              /\ ~StartsLikeJson(DecodedText(arg))
              /\ includes(toLowerCase(DecodedText(arg)), HtmlTag)

\* C28 witness: a document that begins with "<!DOCTYPE html" was classified
\* as XML
C28_Witness ==
    /\ call = "detectMimeType"
    /\ NoPrefixNoSignature(arg)
    /\ ~atob(arg).threw
    /\ startsWith(DecodedText(arg), DoctypeHtml)
    /\ guess = Return(XmlGuess)

\* C29: for every input string, detect returns an ext that is non-empty and
\* holds only characters of [A-Za-z0-9], and a non-empty mime (so that
\* document.<ext> and data:<mime>;base64,<payload> are well formed).
C29_GuessWellFormed ==
    call = "detectMimeType" =>
        /\ guess.kind = "return"
        /\ guess.value.ext # <<>>
        /\ \A i \in DOMAIN guess.value.ext : IsAsciiAlnum(guess.value.ext[i])
        /\ guess.value.mime # <<>>

\* C29 witness: detect was called on a data URI whose subtype holds no letter
\* or digit, and returned the ext "bin" with the declared mime
C29_Witness ==
    /\ call = "detectMimeType"
    /\ DataUriPrefix(arg).matched
    /\ SplitSlashSecond(DataUriPrefix(arg).mime).defined
    /\ SelectSeq(SplitSlashSecond(DataUriPrefix(arg).mime).text, IsAsciiAlnum) = <<>>
    /\ guess = Return([mime |-> DataUriPrefix(arg).mime, ext |-> Bin])

\* C30: the displayed size equals the decoded length: when processBase64 has
\* run on an input that isValid accepts, the size of the document it set,
\* floor(len(cleaned) * 3 / 4) minus the number of trailing "=", is the
\* number of bytes that atob decodes the cleaned payload to, and is not
\* negative.
C30_SizeIsDecodedLength ==
    (processed.completion # "none" /\ isValidBase64(processed.input)) =>
        /\ ~document.isNull
        /\ ~atob(cleanBase64(processed.input)).threw
        /\ document.size = Len(atob(cleanBase64(processed.input)).value)
        /\ document.size >= 0

\* C30 witness: a payload that ends with "==" was processed and its document
\* has the size 1
C30_Witness ==
    /\ processed.completion # "none"
    /\ isValidBase64(processed.input)
    /\ TrailingEquals(cleanBase64(processed.input)) = 2
    /\ ~document.isNull
    /\ document.size = 1

(***************************************************************************)
(* The coordinate overlay of the PDFViewer: pointer events over the canvas *)
(* interleaved with page changes, zoom changes and the render effect       *)
(***************************************************************************)

\* What the pointer handlers leave alone
otherThanOverlay == <<coreVars, aliasVars, decoderVars, coordVars, pdfVars,
    storageVars, scriptVars>>

\* handleMouseEnter: the pointer comes over the canvas
HandleMouseEnter ==
    /\ CanvasShown
    /\ ~isHovering
    /\ isHovering' = TRUE
    /\ UNCHANGED <<coordinates, showCoordinates>>
    /\ UNCHANGED otherThanOverlay

\* handleMouseMove of the latest commit: nothing without a stored viewport;
\* else a sample with page: currentPage and the page size viewport.width /
\* viewport.scale, viewport.height / viewport.scale of the stored viewport,
\* which also converts the pointer position
HandleMouseMove ==
    /\ CanvasShown
    /\ isHovering
    /\ IF storedViewport.isNull
          THEN UNCHANGED coordinates
          ELSE coordinates' =
                   [isNull |-> FALSE, page |-> currentPage,
                    pageWidth |-> storedViewport.width \div storedViewport.scale,
                    pageHeight |-> storedViewport.height \div storedViewport.scale,
                    scale |-> storedViewport.scale]
    /\ UNCHANGED <<isHovering, showCoordinates>>
    /\ UNCHANGED otherThanOverlay

\* handleMouseLeave: the pointer leaves the canvas
HandleMouseLeave ==
    /\ CanvasShown
    /\ isHovering
    /\ isHovering' = FALSE
    /\ coordinates' = NullCoordinates
    /\ UNCHANGED showCoordinates
    /\ UNCHANGED otherThanOverlay

\* toggleCoordinates, the toolbar's crosshair button
ToggleCoordinates ==
    /\ ToolbarShown
    /\ showCoordinates' = ~showCoordinates
    /\ UNCHANGED <<coordinates, isHovering>>
    /\ UNCHANGED otherThanOverlay

\* <CoordinateOverlay coordinates={coordinates}
\*                    visible={showCoordinates && isHovering} /> renders
OverlayVisible ==
    /\ CanvasShown
    /\ showCoordinates
    /\ isHovering
    /\ ~coordinates.isNull

NextOverlay ==
    \/ LoadPdfFulfilled
    \/ LoadPdfRejected
    \/ HandleZoomIn
    \/ HandleZoomOut
    \/ PreviousPage
    \/ NextPage
    \/ GetPageFulfilled
    \/ RenderSettled
    \/ HandleMouseEnter
    \/ HandleMouseMove
    \/ HandleMouseLeave
    \/ ToggleCoordinates

SpecOverlay == InitPdf /\ [][NextOverlay]_vars

\* C27: whenever the coordinate overlay is visible, the sample's page is
\* currentPage and its page size and conversion scale are those of the
\* viewport of that page at the current scale; whenever the pointer is not
\* over the canvas, the sample is null
C27_SampleMatchesShownPage ==
    /\ OverlayVisible =>
          /\ coordinates.page = currentPage
          /\ coordinates.pageWidth = PageSize(currentPage).width
          /\ coordinates.pageHeight = PageSize(currentPage).height
          /\ coordinates.scale = scale
    /\ ~isHovering => coordinates.isNull

=============================================================================
